---- MODULE Spec2Model ----
(***************************************************************************)
(* Verification model of the spaced-repetition application:                *)
(*   - js/sr-algorithm.js  the SM-2 scheduling engine (SRAlgorithm)        *)
(*   - js/app.js           the study session driver                        *)
(*   - js/storage.js       the card store                                  *)
(*                                                                         *)
(* Representation.                                                         *)
(*   JavaScript objects are records; a property the object does not have   *)
(*   is a field the record does not have (Has); null is Null.               *)
(*   Calendar dates (YYYY-MM-DD strings, compared as strings by the code)  *)
(*   are day numbers >= 1; timestamps are clock ticks, TicksPerDay ticks   *)
(*   per UTC day.  Ease factors are kept in hundredths (2.5 is 250), which *)
(*   is exact for every value the engine produces from 2.5 with the steps  *)
(*   -0.20, -0.14, 0.00, +0.10 (binary floating point error is not         *)
(*   modelled).  Math.round is round-half-up, as in JavaScript.            *)
(*   An array shared between two objects (card.sr.history and the history  *)
(*   of the sr that calculateNextReview returns) is modelled by letting    *)
(*   the operation return both the result and the argument card as it is   *)
(*   after the call.                                                       *)
(***************************************************************************)
EXTENDS Integers, Sequences, FiniteSets, TLC

VARIABLES
    card,       \* engine: the card whose scheduling state is being driven
    settings,   \* engine: the collection settings passed to the engine
    clock,      \* wall clock, in ticks
    dstStart,   \* environment: first day whose UTC midnight is on local DST (0: none)
    call,       \* engine: inputs and outputs of the last calculateNextReview call
    calls,      \* engine: number of calls made so far
    cards,      \* storage: the cards object store, id -> card
    collection, \* storage: the collection record (settings and cached stats)
    currentView,\* app: state.currentView
    session,    \* app: state.studySession
    currentCard,\* app: state.currentCard, as the queue position of the object
    dom,        \* app: style.display of the study view's elements (TRUE: shown)
    tasks,      \* app: the asynchronous calls in flight, in the order started
    ratings,    \* app: number of rateCard calls made so far
    download,   \* export: the file written by the last exportCollection
    restored,   \* storage: the collection record created by a restore
    mediaRecorder,        \* media: the recorder mediaRecorder refers to (Null: none)
    recorders,            \* media: the MediaRecorder objects created, in order
    currentRecordingSide, \* media: the side being recorded for (NoSide: null)
    recordingBtn          \* media: sides whose record button has class 'recording'

engineVars  == <<card, settings, call, calls>>
storageVars == <<cards, collection>>
appVars     == <<currentView, session, currentCard, dom, tasks, ratings>>
backupVars  == <<download, restored>>
mediaVars   == <<mediaRecorder, recorders, currentRecordingSide, recordingBtn>>

vars == <<card, settings, clock, dstStart, call, calls,
          cards, collection, currentView, session, currentCard, dom, tasks, ratings,
          download, restored,
          mediaRecorder, recorders, currentRecordingSide, recordingBtn>>

----------------------------------------------------------------------------
(* Bounds of the model *)

MaxCalls    == 3    \* engine calls explored from each initial card
MaxRatings  == 2    \* rateCard calls explored in a study session
MaxClock    == 1    \* last clock tick explored
TicksPerDay == 1    \* clock ticks per calendar day
MaxCards    == 3    \* cards in a database handed to the queue builder

----------------------------------------------------------------------------
(* Constants of sr-algorithm.js *)

DEFAULT_LEARNING_STEPS      == <<1, 10>>
DEFAULT_GRADUATING_INTERVAL == 1
DEFAULT_EASY_INTERVAL       == 4
MIN_EASE_FACTOR             == 130
DEFAULT_EASE_FACTOR         == 250

\* null (dueDate and lastReview of a card that was never rated)
Null == -1

----------------------------------------------------------------------------
(* JavaScript helpers *)

Has(obj, field) == field \in DOMAIN obj

Max(a, b) == IF a >= b THEN a ELSE b

\* Math.round(num / den) for den > 0: round half up
Round(num, den) == (2 * num + den) \div (2 * den)

\* settings.x || dflt for a numeric property: absent and 0 are falsy
OrDefault(obj, field, dflt) ==
    IF Has(obj, field) /\ obj[field] # 0 THEN obj[field] ELSE dflt

----------------------------------------------------------------------------
(* Clock / date utility *)

\* new Date().toISOString().split('T')[0]: the UTC calendar day of a tick
todayString(now) == (now \div TicksPerDay) + 1

\* Is the local clock on daylight saving time at UTC midnight of day d?
InDST(tz, d) == tz # 0 /\ d >= tz

\* addDays(date, days): new Date(date) is UTC midnight of the day; setDate /
\* getDate move the LOCAL calendar date and keep the local wall-clock time;
\* toISOString reads the UTC day back.  When the local clock springs forward
\* between the two instants the result is one hour before UTC midnight of
\* the intended day, i.e. the previous UTC day.
addDays(tz, date, days) ==
    IF ~InDST(tz, date) /\ InDST(tz, date + days)
    THEN date + days - 1
    ELSE date + days

\* Math.random() drawing 0, 1/2 or the largest double below 1 (which gives
\* the same rounded result as 1 would): random/2 for random in RandomDraws
RandomDraws == {0, 1, 2}

\* variant: the perturbation is 10% of the interval
applyFuzzTenth(interval, random) ==
    IF interval <= 7 THEN interval
    ELSE Round(10 * interval + (random - 1) * interval, 10)

\* applyFuzz(interval) with Math.random() = random/2:
\* Math.round(interval + (Math.random() * 2 - 1) * interval * 0.05)
applyFuzz(interval, random) ==
    IF interval <= 7 THEN interval
    ELSE Round(20 * interval + (random - 1) * interval, 20)

----------------------------------------------------------------------------
(* Interval engine: calculateNextReview and its two handlers *)

\* const learningSteps = settings.learningSteps || DEFAULT_LEARNING_STEPS
\* (an empty array is truthy, so [] is kept)
learningStepsOf(s) ==
    IF Has(s, "learningSteps") THEN s.learningSteps ELSE DEFAULT_LEARNING_STEPS

\* variant: the default is left out (settings.graduatingInterval || 0)
graduatingIntervalNoDefault(s) ==
    OrDefault(s, "graduatingInterval", 0)

\* const graduatingInterval = settings.graduatingInterval || DEFAULT_GRADUATING_INTERVAL
graduatingIntervalOf(s) ==
    OrDefault(s, "graduatingInterval", DEFAULT_GRADUATING_INTERVAL)

\* const easyInterval = settings.easyInterval || DEFAULT_EASY_INTERVAL
easyIntervalOf(s) ==
    OrDefault(s, "easyInterval", DEFAULT_EASY_INTERVAL)

\* variant: the two numeric fields are swapped
ReviewRecordSwapped(sr, quality, now) ==
    [date |-> now, quality |-> quality,
     interval |-> sr.easeFactor, easeFactor |-> sr.interval]

\* the record pushed onto sr.history
ReviewRecord(sr, quality, now) ==
    [date |-> now, quality |-> quality,
     interval |-> sr.interval, easeFactor |-> sr.easeFactor]

\* variant: the step is not advanced
nextStepStuck(sr) == sr.learningStep

\* const nextStep = sr.learningStep + 1
nextStepOf(sr) == sr.learningStep + 1

\* variant: the comparison is strict
stepsExhaustedLate(nextStep, learningSteps) == nextStep > Len(learningSteps)
\* variant: a card graduates with the count it has
repetitionsAtGraduationKept(sr) == sr.repetitions

\* sr.repetitions = 1, on either way out of learning
repetitionsAtGraduation(sr) == 1


\* if (nextStep >= learningSteps.length): the card graduates
stepsExhausted(nextStep, learningSteps) == nextStep >= Len(learningSteps)

handleLearningCard(tz, sr, quality, learningSteps, graduatingInterval, easyInterval, today) ==
    IF quality = 0 THEN
        [sr EXCEPT !.state = "learning", !.learningStep = 0,
                   !.repetitions = 0, !.dueDate = today]
    ELSE IF quality = 3 THEN
        [sr EXCEPT !.state = "review", !.interval = easyInterval,
                   !.dueDate = addDays(tz, today, easyInterval),
                   !.repetitions = repetitionsAtGraduation(sr), !.learningStep = 0]
    ELSE IF stepsExhausted(nextStepOf(sr), learningSteps) THEN
        [sr EXCEPT !.state = "review", !.interval = graduatingInterval,
                   !.dueDate = addDays(tz, today, graduatingInterval),
                   !.repetitions = repetitionsAtGraduation(sr), !.learningStep = 0]
    ELSE
        [sr EXCEPT !.state = "learning", !.learningStep = nextStepOf(sr),
                   !.dueDate = today]

\* variant: the quadratic term is left out
efDeltaLinear(quality) == 10 - (3 - quality) * 8

\* efDelta = 0.1 - (3 - q) * (0.08 + (3 - q) * 0.02), in hundredths
efDelta(quality) == 10 - (3 - quality) * (8 + (3 - quality) * 2)

\* variant: the lower bound is not applied
adjustedEaseUnclamped(easeFactor, quality) ==
    easeFactor + efDelta(quality)

\* sr.easeFactor = Math.max(MIN_EASE_FACTOR, sr.easeFactor + efDelta)
adjustedEase(easeFactor, quality) ==
    Max(MIN_EASE_FACTOR, easeFactor + efDelta(quality))

\* variant: a lapse costs 0.1
lapsedEaseTenth(easeFactor) == Max(MIN_EASE_FACTOR, easeFactor - 10)

\* sr.easeFactor = Math.max(MIN_EASE_FACTOR, sr.easeFactor - 0.2)
lapsedEase(easeFactor) == Max(MIN_EASE_FACTOR, easeFactor - 20)

\* sr.interval = Math.max(1, Math.round(sr.interval * 0.5))
lapsedInterval(interval) == Max(1, Round(interval, 2))

\* the interval before the quality modifier
baseInterval(repetitions, interval, easeFactor) ==
    IF repetitions = 0 THEN 1
    ELSE IF repetitions = 1 THEN 6
    ELSE Round(interval * easeFactor, 100)

\* Hard: Math.round(newInterval * 0.8); Easy: Math.round(newInterval * 1.3)
qualityModifier(newInterval, quality) ==
    IF quality = 1 THEN Round(8 * newInterval, 10)
    ELSE IF quality = 3 THEN Round(13 * newInterval, 10)
    ELSE newInterval

\* variant: the count is left as it is
repetitionsKept(repetitions) == repetitions

\* sr.repetitions += 1
repetitionsAfter(repetitions) == repetitions + 1

handleReviewCard(tz, sr, quality, today, random) ==
    IF quality = 0 THEN
        [sr EXCEPT !.state = "learning", !.learningStep = 0, !.repetitions = 0,
                   !.easeFactor = lapsedEase(sr.easeFactor),
                   !.interval = lapsedInterval(sr.interval),
                   !.dueDate = today]
    ELSE
        LET ease        == adjustedEase(sr.easeFactor, quality)
            base        == baseInterval(sr.repetitions, sr.interval, ease)
            modified    == qualityModifier(base, quality)
            newInterval == Max(1, applyFuzz(modified, random))
        IN  [sr EXCEPT !.easeFactor = ease, !.interval = newInterval,
                       !.dueDate = addDays(tz, today, newInterval),
                       !.repetitions = repetitionsAfter(sr.repetitions)]

\* calculateNextReview(card, quality, settings) called at clock tick now with
\* Math.random() drawing random.  sr = { ...card.sr } copies the properties
\* but not the history array, so sr.history.push(...) also grows
\* card.sr.history whenever the card has a history array; a card without one
\* gets a fresh array that only the result holds.
\*   .result  the sr object returned
\*   .card    the argument card as it is after the call
\*   .outcome "returned": the function has no throw statement
calculateNextReview(tz, c, quality, s, now, random) ==
    LET today   == todayString(now)
        hasHist == Has(c.sr, "history")
        pushed  == Append(IF hasHist THEN c.sr.history ELSE <<>>,
                          ReviewRecord(c.sr, quality, now))
        sr      == [history |-> pushed, lastReview |-> now] @@ c.sr
        result  == IF sr.state = "new" \/ sr.state = "learning"
                   THEN handleLearningCard(tz, sr, quality, learningStepsOf(s),
                            graduatingIntervalOf(s), easyIntervalOf(s), today)
                   ELSE handleReviewCard(tz, sr, quality, today, random)
    IN  [outcome |-> "returned",
         result  |-> result,
         card    |-> IF hasHist THEN [c EXCEPT !.sr.history = pushed] ELSE c]

----------------------------------------------------------------------------
(* Cards and settings *)

\* the card Storage.cards.create stores (content fields omitted)
NewCard ==
    [id |-> 1,
     sr |-> [state |-> "new", interval |-> 0, easeFactor |-> DEFAULT_EASE_FACTOR,
             repetitions |-> 0, dueDate |-> Null, lastReview |-> Null,
             learningStep |-> 0, history |-> <<>>]]

\* the settings Storage.collections.create stores when given none
DefaultSettings ==
    [newCardsPerDay |-> 20, reviewsPerDay |-> 200,
     learningSteps |-> <<1, 10>>, graduatingInterval |-> 1, easyInterval |-> 4]

\* Settings the engine is driven with: the stored defaults, settings that
\* leave the engine's three properties out, and custom ones.
SettingsChoices ==
    { DefaultSettings,
      [newCardsPerDay |-> 20, reviewsPerDay |-> 200],
      [newCardsPerDay |-> 20, reviewsPerDay |-> 200,
       learningSteps |-> <<1, 10, 60>>, graduatingInterval |-> 3, easyInterval |-> 9] }

Qualities == 0..3

\* The card after the ratings qs, each persisted as rateCard does, all given
\* at tick 0 in a zone without daylight saving and with Math.random() drawing 0.
RECURSIVE Rated(_, _, _)
Rated(c, qs, s) ==
    IF qs = <<>> THEN c
    ELSE Rated([c EXCEPT !.sr = calculateNextReview(0, c, Head(qs), s, 0, 0).result],
               Tail(qs), s)

\* A card rated Easy once and Hard eight times: its ease factor is 1.38
SeasonedRatings == <<3, 1, 1, 1, 1, 1, 1, 1, 1>>

\* Cards a run starts from: a newly created one, and one with a long past
InitialCards(s) == { NewCard, Rated(NewCard, SeasonedRatings, s) }

\* Time zones: none with daylight saving, or the clocks go forward so that
\* UTC midnight of day 3 is the first on summer time
TimeZones == {0, 3}

----------------------------------------------------------------------------
(* The engine driven by a caller that stores each result as the card's sr *)

NoCall == [op |-> "none"]

\* state.studySession = null
NoSession == [active |-> FALSE]

\* no file has been exported / no collection has been restored
NoFile       == [version |-> "none"]
NoCollection == [id |-> 0]

\* nothing exported and nothing restored yet
BackupIdle ==
    /\ download = NoFile
    /\ restored = NoCollection

\* currentRecordingSide = null
NoSide == "null"

\* the media module as loaded: no recorder, nothing being recorded
MediaIdle ==
    /\ mediaRecorder = Null
    /\ recorders = <<>>
    /\ currentRecordingSide = NoSide
    /\ recordingBtn = {}

\* the application before any collection is opened, with an empty database
AppIdle ==
    /\ BackupIdle
    /\ MediaIdle
    /\ cards = <<>>
    /\ collection = [id |-> 0]
    /\ currentView = "collections"
    /\ session = NoSession
    /\ currentCard = 0
    /\ dom = [showAnswerBtn |-> FALSE, ratingButtons |-> FALSE,
              studyCard |-> FALSE, studyActions |-> FALSE, studyComplete |-> FALSE]
    /\ tasks = <<>>
    /\ ratings = 0

Init ==
    /\ settings \in SettingsChoices
    /\ card \in InitialCards(settings)
    /\ clock = 0
    /\ dstStart \in TimeZones
    /\ call = NoCall
    /\ calls = 0
    /\ AppIdle

\* SRAlgorithm.calculateNextReview(card, quality, settings), the result
\* becoming the card's sr (rateCard: Storage.cards.update(card.id, {sr}))
Review(quality, random) ==
    /\ calls < MaxCalls
    /\ LET out == calculateNextReview(dstStart, card, quality, settings, clock, random)
       IN  /\ call' = [op |-> "calculateNextReview", quality |-> quality,
                       now |-> clock, before |-> card, after |-> out.card,
                       outcome |-> out.outcome, result |-> out.result]
           /\ card' = [card EXCEPT !.sr = out.result]
    /\ calls' = calls + 1
    /\ UNCHANGED <<settings, clock, dstStart, storageVars, appVars, backupVars, mediaVars>>

\* time passes
Tick ==
    /\ clock < MaxClock
    /\ clock' = clock + 1
    /\ UNCHANGED <<engineVars, backupVars, mediaVars, dstStart, storageVars, appVars>>

Next ==
    \/ \E quality \in Qualities, random \in RandomDraws : Review(quality, random)
    \/ Tick

Spec == Init /\ [][Next]_vars

Called == call.op = "calculateNextReview"

----------------------------------------------------------------------------
(* C1: in every state reached from a newly created card by ratings 0..3    *)
(* the card's ease factor is at least 1.3.                                 *)
EaseFactorAtLeastMin == card.sr.easeFactor >= 130

\* a rating that would have taken the ease factor below 1.3
EaseFactorClampedWitness ==
    /\ Called
    /\ call.before.sr.state = "review"
    /\ call.quality = 1
    /\ call.before.sr.easeFactor - 14 < 130
    /\ card.sr.easeFactor = 130

(* C2: whenever the card is in state review after a call, its interval is  *)
(* at least 1 day.                                                         *)
ReviewIntervalAtLeastOne ==
    card.sr.state = "review" => card.sr.interval >= 1

\* a card graduated with settings that name no graduating interval
GraduatedWithDefaultWitness ==
    /\ Called
    /\ ~Has(settings, "graduatingInterval")
    /\ call.before.sr.state = "learning"
    /\ call.quality = 2
    /\ card.sr.state = "review"
    /\ card.sr.interval = 1

(* C3: the returned history is the card's history before the call plus one *)
(* record; that record has the rating passed in and the interval and ease  *)
(* factor the card had before the update; lastReview is the time of call.  *)
HistoryGrowsByOneRecord ==
    Called =>
        LET old == call.before.sr.history
            new == call.result.history
        IN  /\ Len(new) = Len(old) + 1
            /\ SubSeq(new, 1, Len(old)) = old
            /\ new[Len(new)].quality = call.quality
            /\ new[Len(new)].interval = call.before.sr.interval
            /\ new[Len(new)].easeFactor = call.before.sr.easeFactor
            /\ call.result.lastReview = call.now

\* a call that changed both interval and ease factor of a card with a past
HistoryRecordWitness ==
    /\ Called
    /\ Len(call.before.sr.history) >= 1
    /\ call.result.interval # call.before.sr.interval
    /\ call.result.easeFactor # call.before.sr.easeFactor
    /\ Len(call.result.history) = Len(call.before.sr.history) + 1

(* C4: calculateNextReview leaves the card passed to it unchanged: every   *)
(* field of card.sr, the history sequence included, is the same after the  *)
(* call as before.                                                         *)
InputCardUnchanged == Called => call.after = call.before

(* C9: a new or learning card rated 0 becomes learning at step 0 with 0    *)
(* repetitions; rated 1 or 2 with another step left it stays learning, one *)
(* step further.  Either way it is due today and keeps its interval and    *)
(* ease factor.                                                            *)
LearningCardStaysDueToday ==
    (Called /\ call.before.sr.state \in {"new", "learning"}) =>
        LET b     == call.before.sr
            r     == call.result
            today == todayString(call.now)
            steps == IF Has(settings, "learningSteps")
                     THEN settings.learningSteps ELSE <<1, 10>>
        IN  /\ call.quality = 0 =>
                /\ r.state = "learning" /\ r.learningStep = 0 /\ r.repetitions = 0
                /\ r.dueDate = today
                /\ r.interval = b.interval /\ r.easeFactor = b.easeFactor
            /\ (call.quality \in {1, 2} /\ b.learningStep + 1 < Len(steps)) =>
                /\ r.state = "learning" /\ r.learningStep = b.learningStep + 1
                /\ r.dueDate = today
                /\ r.interval = b.interval /\ r.easeFactor = b.easeFactor

\* a learning card on step 1 of three, rated Hard on a later day
LearningStepAdvancedWitness ==
    /\ Called
    /\ call.before.sr.state = "learning"
    /\ call.before.sr.learningStep = 1
    /\ call.quality = 1
    /\ call.now >= TicksPerDay
    /\ call.result.state = "learning"
    /\ call.result.learningStep = 2
    /\ call.result.dueDate = todayString(call.now)

(* C10: a new or learning card rated 3 becomes a review card with the easy *)
(* interval; rated 1 or 2 on its last step, with the graduating interval.  *)
(* Either way repetitions = 1, learningStep = 0, dueDate = today+interval. *)
GraduationDueAfterInterval ==
    (Called /\ call.before.sr.state \in {"new", "learning"}) =>
        LET b     == call.before.sr
            r     == call.result
            today == todayString(call.now)
            steps == IF Has(settings, "learningSteps")
                     THEN settings.learningSteps ELSE <<1, 10>>
            easy  == IF Has(settings, "easyInterval")
                     THEN settings.easyInterval ELSE 4
            grad  == IF Has(settings, "graduatingInterval")
                     THEN settings.graduatingInterval ELSE 1
        IN  /\ call.quality = 3 =>
                /\ r.state = "review" /\ r.interval = easy
                /\ r.repetitions = 1 /\ r.learningStep = 0
                /\ r.dueDate = today + r.interval
            /\ (call.quality \in {1, 2} /\ b.learningStep + 1 >= Len(steps)) =>
                /\ r.state = "review" /\ r.interval = grad
                /\ r.repetitions = 1 /\ r.learningStep = 0
                /\ r.dueDate = today + r.interval

EaseFactorFollowsQuality ==
    (Called /\ call.before.sr.state = "review" /\ call.quality \in 1..3) =>
        LET d   == CASE call.quality = 1 -> -14
                     [] call.quality = 2 -> 0
                     [] call.quality = 3 -> 10
            sum == call.before.sr.easeFactor + d
        IN  call.result.easeFactor = (IF sum > 130 THEN sum ELSE 130)

\* a Hard rating that lowers the ease factor by 0.14 without reaching 1.3
HardLowersEaseWitness ==
    /\ Called
    /\ call.before.sr.state = "review"
    /\ call.quality = 1
    /\ call.result.easeFactor = call.before.sr.easeFactor - 14
    /\ call.result.easeFactor > 130

\* round(num / den), halves rounded up
RoundedQuotient(num, den) == (2 * num + den) \div (2 * den)

\* the interval of a successful review before the random perturbation:
\* 1, 6 or round(interval * ease) by repetitions, then * 0.8 for Hard and
\* * 1.3 for Easy, rounded (ease is the factor after its update)
PreFuzzInterval(repetitions, interval, ease, quality) ==
    LET base == IF repetitions = 0 THEN 1
                ELSE IF repetitions = 1 THEN 6
                ELSE RoundedQuotient(interval * ease, 100)
    IN  IF quality = 1 THEN RoundedQuotient(base * 8, 10)
        ELSE IF quality = 3 THEN RoundedQuotient(base * 13, 10)
        ELSE base

\* final is what a pre-fuzz interval can become: itself up to 7 days, and
\* within 5% above that; never less than 1
WithinFuzz(pre, final) ==
    /\ final >= 1
    /\ pre <= 7 => final = (IF pre > 1 THEN pre ELSE 1)
    /\ pre > 7 => /\ final >= RoundedQuotient(95 * pre, 100)
                  /\ final <= RoundedQuotient(105 * pre, 100)

(* C13: a review card rated q in 1..3 stays a review card; its interval is *)
(* the fuzzed value of: 1 / 6 / round(interval * new ease) by repetitions, *)
(* times 0.8 (Hard) or 1.3 (Easy), rounded; dueDate = today + interval.    *)
ReviewIntervalAndDueDate ==
    (Called /\ call.before.sr.state = "review" /\ call.quality \in 1..3) =>
        LET b == call.before.sr
            r == call.result
        IN  /\ r.state = "review"
            /\ WithinFuzz(PreFuzzInterval(b.repetitions, b.interval,
                                          r.easeFactor, call.quality), r.interval)
            /\ r.dueDate = todayString(call.now) + r.interval

(* C14: after a successful review the interval equals the pre-fuzz value  *)
(* when that is at most 7; above 7 it lies between round(0.95 * i) and     *)
(* round(1.05 * i), whatever the draw; it is never less than 1.            *)
FuzzWithinFivePercent ==
    (Called /\ call.before.sr.state = "review" /\ call.quality \in 1..3) =>
        WithinFuzz(PreFuzzInterval(call.before.sr.repetitions,
                                   call.before.sr.interval,
                                   call.result.easeFactor, call.quality),
                   call.result.interval)

\* a review whose interval the draw moved away from its pre-fuzz value
FuzzMovedIntervalWitness ==
    /\ Called
    /\ call.before.sr.state = "review"
    /\ call.quality \in 1..3
    /\ LET pre == PreFuzzInterval(call.before.sr.repetitions, call.before.sr.interval,
                                  call.result.easeFactor, call.quality)
       IN  /\ pre > 7
           /\ call.result.interval # pre

(* C15: a call on a review card with quality 1..3 raises repetitions by    *)
(* exactly 1, and no call lowers repetitions except to 0.                  *)
RepetitionsCountReviews ==
    [][ /\ (call' # call /\ call'.before.sr.state = "review"
                         /\ call'.quality \in 1..3)
              => card'.sr.repetitions = card.sr.repetitions + 1
        /\ \/ card'.sr.repetitions >= card.sr.repetitions
           \/ card'.sr.repetitions = 0 ]_vars

\* a third successful review in a row
RepetitionsRaisedWitness ==
    /\ Called
    /\ call.before.sr.state = "review"
    /\ call.quality \in 1..3
    /\ call.before.sr.repetitions >= 2
    /\ card.sr.repetitions = call.before.sr.repetitions + 1

(* C34: in every state reached from a newly created card by ratings 0..3,  *)
(* repetitions is 0 exactly when the card is new or learning and at least  *)
(* 1 exactly when it is in review; handleReviewCard therefore never        *)
(* computes an interval for a card with repetitions 0.                     *)
RepetitionsMatchState ==
    /\ card.sr.repetitions = 0 <=> card.sr.state \in {"new", "learning"}
    /\ card.sr.repetitions >= 1 <=> card.sr.state = "review"
    /\ (Called /\ call.before.sr.state = "review")
           => call.before.sr.repetitions >= 1

\* a card that lapsed from review and graduated again
GraduatedAgainWitness ==
    /\ Called
    /\ call.before.sr.state = "learning"
    /\ call.before.sr.repetitions = 0
    /\ \E k \in 1..Len(call.before.sr.history) :
          call.before.sr.history[k].quality = 0
    /\ card.sr.state = "review"
    /\ card.sr.repetitions = 1

(* C16: after every call, under fixed settings, the card's learningStep is *)
(* 0 or an index into learningSteps: 0 <= learningStep < length.           *)
LearningStepIsValidIndex ==
    LET steps == IF Has(settings, "learningSteps")
                 THEN settings.learningSteps ELSE <<1, 10>>
    IN  \/ card.sr.learningStep = 0
        \/ (0 <= card.sr.learningStep /\ card.sr.learningStep < Len(steps))

\* a card on its last learning step rated Good: it graduates, the step is 0
LastStepGraduatesWitness ==
    /\ Called
    /\ call.before.sr.state = "learning"
    /\ call.before.sr.learningStep >= 1
    /\ call.before.sr.learningStep + 1 =
           Len(IF Has(settings, "learningSteps")
               THEN settings.learningSteps ELSE <<1, 10>>)
    /\ call.quality = 2
    /\ card.sr.state = "review"
    /\ card.sr.learningStep = 0

(* C17: a newly created card rated Good each time under the default       *)
(* settings has interval 1 after the first rating, 6 after the second and  *)
(* 15 after the third, its ease factor staying 2.5.                        *)
GoodThreeTimesIntervals ==
    LET h == card.sr.history
    IN  (/\ settings = DefaultSettings
         /\ Len(h) \in 1..3
         /\ \A i \in 1..Len(h) : h[i].quality = 2
         /\ h[1].interval = 0)
            => /\ card.sr.interval = <<1, 6, 15>>[Len(h)]
               /\ card.sr.easeFactor = 250

(* C18: a learning card that carries the halved interval of a lapse keeps  *)
(* it at every learning step and still has it when it graduates to review. *)
(* (Only a lapsed card is in learning with an interval of 1 or more: a new *)
(* card has interval 0 until it graduates.)                                *)
LapsedIntervalKeptToGraduation ==
    (Called /\ call.before.sr.state = "learning" /\ call.before.sr.interval >= 1)
        => call.result.interval = call.before.sr.interval

----------------------------------------------------------------------------
(* The engine driven with arbitrary arguments: ratings outside 0..3,       *)
(* settings with no learning step, and stored states with a field missing  *)

AnyQualities == -1..4

AnySettings ==
    { DefaultSettings,
      [newCardsPerDay |-> 20, reviewsPerDay |-> 200,
       learningSteps |-> <<>>, graduatingInterval |-> 1, easyInterval |-> 4] }

\* a review card whose dueDate was lost, and cards without a history array
AnyCards ==
    { NewCard,
      [id |-> 1,
       sr |-> [state |-> "review", interval |-> 10, easeFactor |-> 250,
               repetitions |-> 2, dueDate |-> Null, lastReview |-> 0,
               learningStep |-> 0, history |-> <<>>]],
      [id |-> 1,
       sr |-> [state |-> "new", interval |-> 0, easeFactor |-> 250,
               repetitions |-> 0, dueDate |-> Null, lastReview |-> Null,
               learningStep |-> 0]],
      [id |-> 1,
       sr |-> [state |-> "review", interval |-> 10, easeFactor |-> 250,
               repetitions |-> 2, dueDate |-> 1, lastReview |-> 0,
               learningStep |-> 0]] }

InitAny ==
    /\ settings \in AnySettings
    /\ card \in AnyCards
    /\ clock = 0
    /\ dstStart \in TimeZones
    /\ call = NoCall
    /\ calls = 0
    /\ AppIdle

NextAny ==
    \/ \E quality \in AnyQualities, random \in RandomDraws : Review(quality, random)
    \/ Tick

SpecAny == InitAny /\ [][NextAny]_vars

\* the call failed: nothing was returned and nothing changed
Rejected(error) ==
    /\ call.outcome = error
    /\ call.after = call.before
    /\ card = call.before

(* C6: a call with a quality outside 0..3 fails with InvalidInput: it      *)
(* returns no updated state and changes nothing.                           *)
InvalidQualityRejected ==
    (Called /\ call.quality \notin 0..3) => Rejected("InvalidInput")

(* C7: a call with settings whose learningSteps is empty fails with        *)
(* InvalidInput: no updated state, no history record, no lastReview.       *)
EmptyLearningStepsRejected ==
    (Called /\ Has(settings, "learningSteps") /\ settings.learningSteps = <<>>)
        => Rejected("InvalidInput")

(* C8: a call on a state that lacks a required field (a review card with   *)
(* no dueDate, a card with no history) reports MalformedState and puts no  *)
(* default in place of the missing field.                                  *)
MalformedStateRejected ==
    (Called /\ (\/ ~Has(call.before.sr, "history")
                \/ (call.before.sr.state = "review" /\ call.before.sr.dueDate = Null)))
        => Rejected("MalformedState")

----------------------------------------------------------------------------
(* Queue builder and statistics (sr-algorithm.js, storage.js) *)

\* Array.prototype.slice(0, limit); a negative limit counts from the end
Slice(seq, limit) ==
    LET last == IF limit >= 0 THEN limit ELSE Len(seq) + limit
    IN  SubSeq(seq, 1, IF last > Len(seq) THEN Len(seq) ELSE last)

\* Array.prototype.sort with a comparator key(a) - key(b), keys[i] being the
\* key of seq[i]: a stable sort.  The element at position i moves behind
\* every element with a smaller key and behind the earlier elements with
\* the same key.
SortBy(seq, keys) ==
    LET rank(i) == Cardinality({j \in 1..Len(seq) :
                        \/ keys[j] < keys[i]
                        \/ (keys[j] = keys[i] /\ j < i)}) + 1
    IN  [r \in 1..Len(seq) |-> seq[CHOOSE i \in 1..Len(seq) : rank(i) = r]]

\* variant: a card due on the day itself is left out
getDueCardsBefore(cs, dateString) ==
    SelectSeq(cs, LAMBDA c :
        \/ c.sr.state = "new"
        \/ c.sr.state = "learning"
        \/ (c.sr.dueDate # Null /\ c.sr.dueDate < dateString))

\* getDueCards(cards, date) with dateString the UTC day of date
getDueCards(cs, dateString) ==
    SelectSeq(cs, LAMBDA c :
        \/ c.sr.state = "new"
        \/ c.sr.state = "learning"
        \/ (c.sr.dueDate # Null /\ c.sr.dueDate <= dateString))

\* variant: overdue cards are compared by ease factor
overdueKeyEase(c) == c.sr.easeFactor

\* overdue.sort((a, b) => a.sr.dueDate.localeCompare(b.sr.dueDate)): the
\* YYYY-MM-DD strings compare as the days do
overdueKey(c) == c.sr.dueDate

\* variant: the comparison is turned round
dueReviewKeyDescending(c) == 0 - c.sr.easeFactor

\* dueReview.sort((a, b) => a.sr.easeFactor - b.sr.easeFactor)
dueReviewKey(c) == c.sr.easeFactor

\* learning.sort((a, b) => a.sr.learningStep - b.sr.learningStep)
learningKey(c) == c.sr.learningStep

\* variant: the new cards are put first
sortStudyQueueNewFirst(cs, today) ==
    LET isReview(c) == c.sr.state # "new" /\ c.sr.state # "learning"
                       /\ c.sr.dueDate # Null
        overdue   == SelectSeq(cs, LAMBDA c : isReview(c) /\ c.sr.dueDate < today)
        dueReview == SelectSeq(cs, LAMBDA c : isReview(c) /\ c.sr.dueDate = today)
        learning  == SelectSeq(cs, LAMBDA c : c.sr.state = "learning")
        newCards  == SelectSeq(cs, LAMBDA c : c.sr.state = "new")
    IN  newCards
        \o SortBy(overdue, [i \in 1..Len(overdue) |-> overdueKey(overdue[i])])
        \o SortBy(dueReview, [i \in 1..Len(dueReview) |-> dueReviewKey(dueReview[i])])
        \o SortBy(learning, [i \in 1..Len(learning) |-> learningKey(learning[i])])

\* sortStudyQueue(cards) on the day today; a review card that is due after
\* today, or has no dueDate, is put in none of the four lists
sortStudyQueue(cs, today) ==
    LET isReview(c) == c.sr.state # "new" /\ c.sr.state # "learning"
                       /\ c.sr.dueDate # Null
        overdue   == SelectSeq(cs, LAMBDA c : isReview(c) /\ c.sr.dueDate < today)
        dueReview == SelectSeq(cs, LAMBDA c : isReview(c) /\ c.sr.dueDate = today)
        learning  == SelectSeq(cs, LAMBDA c : c.sr.state = "learning")
        newCards  == SelectSeq(cs, LAMBDA c : c.sr.state = "new")
    IN  SortBy(overdue, [i \in 1..Len(overdue) |-> overdueKey(overdue[i])])
        \o SortBy(dueReview, [i \in 1..Len(dueReview) |-> dueReviewKey(dueReview[i])])
        \o SortBy(learning, [i \in 1..Len(learning) |-> learningKey(learning[i])])
        \o newCards

\* variant: the list passed in is sorted in place
buildQueueSortingInput(allCards, s, today) ==
    LET dueCards    == getDueCards(allCards, today)
        newLimit    == OrDefault(s, "newCardsPerDay", 20)
        reviewLimit == OrDefault(s, "reviewsPerDay", 200)
        newCards    == Slice(SelectSeq(dueCards, LAMBDA c : c.sr.state = "new"),
                             newLimit)
        reviewCards == Slice(SelectSeq(dueCards, LAMBDA c : c.sr.state # "new"),
                             reviewLimit)
    IN  [queue    |-> sortStudyQueue(reviewCards \o newCards, today),
         allCards |-> SortBy(allCards, [i \in 1..Len(allCards) |->
                                          allCards[i].sr.easeFactor])]

\* The queue startStudySession builds from allCards: getDueCards, the two
\* daily limits, sortStudyQueue.  filter, slice and the spread make new
\* arrays and sortStudyQueue sorts the arrays it filled itself, so the list
\* passed in, and the cards in it, are left as they were.
\*   .queue     the queue of the session
\*   .allCards  the list passed in, as it is after the call
buildQueue(allCards, s, today) ==
    LET dueCards    == getDueCards(allCards, today)
        newLimit    == OrDefault(s, "newCardsPerDay", 20)
        reviewLimit == OrDefault(s, "reviewsPerDay", 200)
        newCards    == Slice(SelectSeq(dueCards, LAMBDA c : c.sr.state = "new"),
                             newLimit)
        reviewCards == Slice(SelectSeq(dueCards, LAMBDA c : c.sr.state # "new"),
                             reviewLimit)
    IN  [queue    |-> sortStudyQueue(reviewCards \o newCards, today),
         allCards |-> allCards]

\* index.getAll(collectionId): the stored cards in key (id) order
getByCollection(store) ==
    LET ids == DOMAIN store
        ord == CHOOSE f \in [1..Cardinality(ids) -> ids] :
                   \A i, j \in 1..Cardinality(ids) : i < j => f[i] < f[j]
    IN  [i \in 1..Cardinality(ids) |-> store[ord[i]]]

RECURSIVE SumEase(_)
SumEase(cs) == IF cs = <<>> THEN 0 ELSE Head(cs).sr.easeFactor + SumEase(Tail(cs))

\* variant: the new cards are not added to dueToday
updateStatsOfDatedOnly(allCards, today) ==
    LET count(P(_)) == Len(SelectSeq(allCards, P))
    IN  [totalCards    |-> Len(allCards),
         newCards      |-> count(LAMBDA c : c.sr.state = "new"),
         learningCards |-> count(LAMBDA c : c.sr.state = "learning"),
         reviewCards   |-> count(LAMBDA c : c.sr.state = "review"),
         dueToday      |-> count(LAMBDA c : c.sr.dueDate # Null /\ c.sr.dueDate <= today),
         averageEase   |-> IF Len(allCards) > 0
                           THEN <<SumEase(allCards), Len(allCards)>>
                           ELSE <<DEFAULT_EASE_FACTOR, 1>>]

\* the stats record Storage.collections.updateStats computes from allCards;
\* averageEase is the quotient totalEase / allCards.length, kept as its two
\* operands (2.5 for no cards)
updateStatsOf(allCards, today) ==
    LET count(P(_)) == Len(SelectSeq(allCards, P))
        newCards == count(LAMBDA c : c.sr.state = "new")
    IN  [totalCards    |-> Len(allCards),
         newCards      |-> newCards,
         learningCards |-> count(LAMBDA c : c.sr.state = "learning"),
         reviewCards   |-> count(LAMBDA c : c.sr.state = "review"),
         dueToday      |-> count(LAMBDA c : c.sr.dueDate # Null /\ c.sr.dueDate <= today)
                           + newCards,
         averageEase   |-> IF Len(allCards) > 0
                           THEN <<SumEase(allCards), Len(allCards)>>
                           ELSE <<DEFAULT_EASE_FACTOR, 1>>]

----------------------------------------------------------------------------
(* Study session (app.js) over the card store (storage.js).                *)
(*                                                                         *)
(* Every Storage call is an IndexedDB request in a transaction of its own. *)
(* A step of the model is the completion of one request together with the  *)
(* code that runs from its callback up to the next request (promise        *)
(* continuations run before any other event).  A task is an asynchronous   *)
(* call in flight; pc names the request it waits for.  Requests on one     *)
(* object store complete in the order they were made, so tasks is kept in  *)
(* the order of the pending requests.  A session is taken to be short      *)
(* against the clock: it starts on day 1 or on day 2 and no tick passes    *)
(* while it runs.                                                          *)

RemoveAt(seq, i) == SubSeq(seq, 1, i - 1) \o SubSeq(seq, i + 1, Len(seq))

\* the object store a pending request is on
StoreOf(pc) ==
    IF pc \in {"stats_get", "stats_put"} THEN "collections" ELSE "cards"

\* the request of task i is the oldest pending one on its object store
Oldest(i) ==
    \A j \in 1..(i - 1) : StoreOf(tasks[j].pc) # StoreOf(tasks[i].pc)

\* task i made a new request / returned
Continue(i, t) == Append(RemoveAt(tasks, i), t)
Finish(i)      == RemoveAt(tasks, i)

\* a stored card: the engine's card with the fields cards.create adds
StoredCard(c, id) ==
    [id |-> id, sr |-> c.sr, collectionId |-> 1, createdAt |-> 0, updatedAt |-> 0]

\* Databases a session starts from: two cards of one collection with the
\* default settings; card 1 is new, or in learning (rated Good once), or in
\* review and due on day 2 (rated Good twice on day 1)
SessionStores ==
    { (1 :> StoredCard(Rated(NewCard, qs, DefaultSettings), 1))
        @@ (2 :> StoredCard(NewCard, 2)) : qs \in {<<>>, <<2>>, <<2, 2>>} }

InitSession ==
    /\ cards \in SessionStores
    /\ collection = [id |-> 1, settings |-> DefaultSettings, updatedAt |-> 0,
                     stats |-> updateStatsOf(getByCollection(cards), todayString(0))]
    /\ clock \in {0, TicksPerDay}
    /\ dstStart \in TimeZones
    /\ currentView = "collections"
    /\ session = NoSession
    /\ currentCard = 0
    /\ dom = [showAnswerBtn |-> FALSE, ratingButtons |-> FALSE,
              studyCard |-> FALSE, studyActions |-> FALSE, studyComplete |-> FALSE]
    /\ BackupIdle
    /\ MediaIdle
    /\ tasks = <<>>
    /\ ratings = 0
    /\ card = NewCard
    /\ settings = DefaultSettings
    /\ call = NoCall
    /\ calls = 0

\* showNextCard() for the session object sess, the tasks in flight being ts;
\* past the end of the queue it is showStudyComplete(), which starts
\* Storage.collections.updateStats without awaiting it
showNextCard(sess, ts) ==
    /\ session' = sess
    /\ IF sess.currentIndex >= Len(sess.queue)
       THEN /\ dom' = [dom EXCEPT !.studyCard = FALSE, !.studyActions = FALSE,
                                  !.studyComplete = TRUE]
            /\ currentCard' = currentCard
            /\ tasks' = Append(ts, [kind |-> "updateStats", pc |-> "stats_read"])
       ELSE /\ dom' = [showAnswerBtn |-> TRUE, ratingButtons |-> FALSE,
                       studyCard |-> TRUE, studyActions |-> TRUE,
                       studyComplete |-> FALSE]
            /\ currentCard' = sess.currentIndex + 1
            /\ tasks' = ts

\* navigateTo('study', {collectionId}) and startStudySession(collectionId)
startStudySession ==
    /\ session = NoSession
    /\ currentView' = "study"
    /\ LET queue == buildQueue(getByCollection(cards), collection.settings,
                               todayString(clock)).queue
       IN  showNextCard([active |-> TRUE, collectionId |-> collection.id,
                         settings |-> collection.settings, queue |-> queue,
                         currentIndex |-> 0, reviewed |-> 0, correct |-> 0],
                        tasks)
    /\ UNCHANGED <<engineVars, backupVars, mediaVars, clock, dstStart, storageVars, ratings>>

\* getIntervalEstimates(card, settings): calculateNextReview({ ...card }, q)
\* for q = 0, 1, 2, 3; only what the calls do to the card is kept (the
\* estimates are display text)
RECURSIVE afterEstimates(_, _, _, _, _)
afterEstimates(tz, c, qs, s, now) ==
    IF qs = <<>> THEN c
    ELSE afterEstimates(tz, calculateNextReview(tz, c, Head(qs), s, now, 0).card,
                        Tail(qs), s, now)

\* showAnswer(): the button, or Space while the button is displayed
showAnswer ==
    /\ currentView = "study"
    /\ dom.showAnswerBtn
    /\ session' = [session EXCEPT !.queue[currentCard] =
                       afterEstimates(dstStart, session.queue[currentCard],
                                      <<0, 1, 2, 3>>, session.settings, clock)]
    /\ dom' = [dom EXCEPT !.showAnswerBtn = FALSE, !.ratingButtons = TRUE]
    /\ UNCHANGED <<engineVars, backupVars, mediaVars, clock, dstStart, storageVars,
                   currentView, currentCard, tasks, ratings>>

\* rateCard(quality) up to its first await: a key 1-4 while the rating
\* buttons are displayed (or a click on one of them).  srUpdate.history is
\* the card's own history array whenever the card has one.
rateCard(quality, random) ==
    /\ currentView = "study"
    /\ dom.ratingButtons
    /\ ratings < MaxRatings
    /\ LET c   == session.queue[currentCard]
           out == calculateNextReview(dstStart, c, quality, session.settings,
                                      clock, random)
       IN  /\ session' = [session EXCEPT !.queue[currentCard] = out.card]
           /\ tasks' = Append(tasks,
                  [kind |-> "rateCard", pc |-> "update_get",
                   ref |-> currentCard, id |-> c.id, quality |-> quality,
                   srUpdate |-> out.result, shared |-> Has(c.sr, "history")])
    /\ ratings' = ratings + 1
    /\ UNCHANGED <<engineVars, backupVars, mediaVars, clock, dstStart, storageVars,
                   currentView, currentCard, dom>>

\* Storage.cards.update(id, {sr}): this.get(id) returned; the merged card is
\* handed to store.put, which copies it
cardsUpdateGet(i) ==
    /\ tasks[i].pc = "update_get" /\ Oldest(i)
    /\ LET t == tasks[i]
       IN  IF t.id \notin DOMAIN cards
           THEN tasks' = Finish(i)      \* StorageError('Card not found')
           ELSE LET existing == cards[t.id]
                    srNow    == IF t.shared
                                THEN [t.srUpdate EXCEPT !.history =
                                          session.queue[t.ref].sr.history]
                                ELSE t.srUpdate
                    updated  == [existing EXCEPT !.sr = srNow @@ existing.sr,
                                                 !.updatedAt = clock]
                IN  tasks' = Continue(i, [t EXCEPT !.pc = "update_put"]
                                         @@ [pending |-> updated])
    /\ UNCHANGED <<engineVars, backupVars, mediaVars, clock, dstStart, storageVars,
                   currentView, session, currentCard, dom, ratings>>

\* store.put(updated) succeeded; updateStats asks for the collection's cards
cardsUpdatePut(i) ==
    /\ tasks[i].pc = "update_put" /\ Oldest(i)
    /\ cards' = (tasks[i].id :> tasks[i].pending) @@ cards
    /\ tasks' = Continue(i, [tasks[i] EXCEPT !.pc = "stats_read"])
    /\ UNCHANGED <<engineVars, backupVars, mediaVars, clock, dstStart, collection,
                   currentView, session, currentCard, dom, ratings>>

\* Storage.collections.updateStats: cards.getByCollection returned; the
\* counts are taken and collections.update asks for the collection
updateStatsRead(i) ==
    /\ tasks[i].pc = "stats_read" /\ Oldest(i)
    /\ tasks' = Continue(i, [tasks[i] EXCEPT !.pc = "stats_get"]
                  @@ [stats |-> updateStatsOf(getByCollection(cards),
                                              todayString(clock))])
    /\ UNCHANGED <<engineVars, backupVars, mediaVars, clock, dstStart, storageVars,
                   currentView, session, currentCard, dom, ratings>>

\* Storage.collections.update(id, {stats}): this.get(id) returned; the merged
\* collection is handed to store.put
collectionsUpdateGet(i) ==
    /\ tasks[i].pc = "stats_get" /\ Oldest(i)
    /\ tasks' = Continue(i, [tasks[i] EXCEPT !.pc = "stats_put"]
                  @@ [pendingCollection |->
                         [collection EXCEPT !.stats = tasks[i].stats,
                                            !.updatedAt = clock]])
    /\ UNCHANGED <<engineVars, backupVars, mediaVars, clock, dstStart, storageVars,
                   currentView, session, currentCard, dom, ratings>>

\* variant: the position is left where it is
advanceStuck(sess) == sess

\* session.currentIndex++
advance(sess) == [sess EXCEPT !.currentIndex = @ + 1]

\* store.put(updated) of the collection succeeded.  For rateCard this ends
\* await Storage.cards.update(...): the session counts the review, and
\* either asks for the card again (Again) or moves to the next card.
collectionsUpdatePut(i) ==
    /\ tasks[i].pc = "stats_put" /\ Oldest(i)
    /\ collection' = tasks[i].pendingCollection
    /\ LET t == tasks[i]
       IN  IF t.kind = "updateStats"
           THEN /\ tasks' = Finish(i)
                /\ UNCHANGED <<session, currentCard, dom>>
           ELSE LET counted == [session EXCEPT
                                   !.reviewed = @ + 1,
                                   !.correct = IF t.quality >= 2 THEN @ + 1 ELSE @]
                IN  IF t.quality = 0
                    THEN /\ session' = counted
                         /\ tasks' = Continue(i, [t EXCEPT !.pc = "requeue_get"])
                         /\ UNCHANGED <<currentCard, dom>>
                    ELSE showNextCard(advance(counted), Finish(i))
    /\ UNCHANGED <<engineVars, backupVars, mediaVars, clock, dstStart, cards, currentView, ratings>>

\* rateCard after Again: Storage.cards.get(card.id) returned; the stored card
\* is pushed onto the queue and the session moves to the next card
requeueGet(i) ==
    /\ tasks[i].pc = "requeue_get" /\ Oldest(i)
    /\ tasks[i].id \in DOMAIN cards
    /\ showNextCard(advance([session EXCEPT !.queue = Append(@, cards[tasks[i].id])]),
                    Finish(i))
    /\ UNCHANGED <<engineVars, backupVars, mediaVars, clock, dstStart, storageVars, currentView, ratings>>

NextSession ==
    \/ startStudySession
    \/ showAnswer
    \/ \E quality \in Qualities, random \in RandomDraws : rateCard(quality, random)
    \/ \E i \in 1..Len(tasks) : cardsUpdateGet(i)
    \/ \E i \in 1..Len(tasks) : cardsUpdatePut(i)
    \/ \E i \in 1..Len(tasks) : updateStatsRead(i)
    \/ \E i \in 1..Len(tasks) : collectionsUpdateGet(i)
    \/ \E i \in 1..Len(tasks) : collectionsUpdatePut(i)
    \/ \E i \in 1..Len(tasks) : requeueGet(i)

SpecSession == InitSession /\ [][NextSession]_vars

\* the sessions that start on day 1, without daylight saving time
InitSessionDayOne ==
    /\ InitSession
    /\ clock = 0
    /\ dstStart = 0

\* The session with a user who answers and rates every card presented and
\* a database that completes every request made.  showAnswer is enabled
\* exactly while the button is displayed in the study view, and nothing but
\* showAnswer hides the button: its weak fairness is that the button is not
\* left displayed for ever.  The sessions start on day 1, without daylight
\* saving time.
SpecSessionFair ==
    /\ InitSessionDayOne
    /\ [][NextSession]_vars
    /\ WF_vars(startStudySession)
    /\ []<>~(currentView = "study" /\ dom.showAnswerBtn)
    /\ WF_vars(\E quality \in Qualities, random \in RandomDraws :
                   rateCard(quality, random))
    /\ WF_vars(\E i \in 1..Len(tasks) : cardsUpdateGet(i))
    /\ WF_vars(\E i \in 1..Len(tasks) : cardsUpdatePut(i))
    /\ WF_vars(\E i \in 1..Len(tasks) : updateStatsRead(i))
    /\ WF_vars(\E i \in 1..Len(tasks) : collectionsUpdateGet(i))
    /\ WF_vars(\E i \in 1..Len(tasks) : collectionsUpdatePut(i))
    /\ WF_vars(\E i \in 1..Len(tasks) : requeueGet(i))

\* queue.length - currentIndex: the entries not yet passed
Remaining(sess) == Len(sess.queue) - sess.currentIndex

\* the last rating the model explores has been made and stored
RatingsExhausted == ratings = MaxRatings /\ tasks = <<>>

(* C36: a rateCard call of quality 1..3 lowers queue.length - currentIndex *)
(* by exactly 1 when it completes, a call of quality 0 leaves it as it is, *)
(* and nothing else changes it; a session whose cards are all rated        *)
(* reaches the complete screen (within the ratings explored).              *)
SessionReachesComplete ==
    /\ [][ /\ \A i \in 1..Len(tasks) :
                 /\ (collectionsUpdatePut(i) /\ tasks[i].kind = "rateCard")
                       => Remaining(session') =
                              IF tasks[i].quality = 0 THEN Remaining(session)
                              ELSE Remaining(session) - 1
                 /\ requeueGet(i) => Remaining(session') = Remaining(session)
           /\ (/\ session.active
               /\ ~ \E i \in 1..Len(tasks) :
                       collectionsUpdatePut(i) /\ tasks[i].kind = "rateCard")
                 => Remaining(session') = Remaining(session) ]_vars
    /\ session.active ~> (dom.studyComplete \/ RatingsExhausted)
    /\ <>(session.active)

\* a session that ended after an Again and a Good on its only card
CompleteAfterAgainWitness ==
    /\ session.active
    /\ dom.studyComplete
    /\ Len(session.queue) = 2
    /\ session.queue[2].id = session.queue[1].id
    /\ session.currentIndex = 2
    /\ session.reviewed = 2
    /\ session.correct = 1

(* C5: in a study session each rating event (answer shown, estimates       *)
(* computed for the four qualities, rateCard(q) persisting the update)     *)
(* adds exactly one record to the card's stored history, with quality q;   *)
(* computing the estimates changes neither the card nor the store.         *)
RatingEventAddsOneRecord ==
    [][ /\ showAnswer => (session'.queue = session.queue /\ cards' = cards)
        /\ \A i \in 1..Len(tasks) :
              (cardsUpdatePut(i) /\ tasks[i].id \in DOMAIN cards) =>
                  LET old == cards[tasks[i].id].sr.history
                      new == cards'[tasks[i].id].sr.history
                  IN  /\ Len(new) = Len(old) + 1
                      /\ SubSeq(new, 1, Len(old)) = old
                      /\ new[Len(new)].quality = tasks[i].quality ]_vars

\* the Storage.cards.update calls for card id that have read the stored card
\* and not yet written the merged one
ReadNotWritten(id) ==
    { i \in 1..Len(tasks) : /\ tasks[i].kind = "rateCard"
                            /\ tasks[i].pc = "update_put"
                            /\ tasks[i].id = id }

(* C29: Storage.cards.update calls for one card are serialized: no call    *)
(* reads the stored card while another call for the same card has read it  *)
(* and not yet written its merged card, so no update is merged into a      *)
(* stale copy and lost.                                                    *)
CardUpdatesSerialized ==
    \A id \in DOMAIN cards : Cardinality(ReadNotWritten(id)) <= 1

(* C32: once the session shows the complete screen, no input applies a     *)
(* rating: no rateCard call is made, so calculateNextReview and            *)
(* Storage.cards.update are not run again for a card of the session.       *)
NoRatingOnCompleteScreen ==
    [][ (session.active /\ dom.studyComplete) => ratings' = ratings ]_vars

(* C33: also when ratings overlap, the session moves on one queue entry at *)
(* a time and only past the entry that was rated: a rateCard call counts   *)
(* its review and advances currentIndex while the entry it rated is the    *)
(* one at currentIndex, and both counters change by one at a time.         *)
IndexAdvancesPastRatedEntry ==
    [][ /\ \A i \in 1..Len(tasks) :
              (/\ tasks[i].kind = "rateCard"
               /\ collectionsUpdatePut(i) \/ requeueGet(i))
                 => tasks[i].ref = session.currentIndex + 1
        /\ (session.active /\ session'.active)
              => /\ session'.currentIndex \in {session.currentIndex,
                                               session.currentIndex + 1}
                 /\ session'.reviewed \in {session.reviewed,
                                           session.reviewed + 1} ]_vars

\* the identifiers of the cards of a queue, in queue order
QueueIds(q) == [k \in 1..Len(q) |-> q[k].id]

(* C26: a rating of quality 0 ends with the stored card, as just updated   *)
(* (state learning, learningStep 0), appended as the last element of the   *)
(* session queue, behind the current position; a rating of quality 1, 2 or *)
(* 3 leaves the cards of the queue as they are.                            *)
AgainRequeuesUpdatedCard ==
    [][ /\ \A i \in 1..Len(tasks) :
              requeueGet(i) =>
                  /\ tasks[i].quality = 0
                  /\ session'.queue = Append(session.queue, cards[tasks[i].id])
                  /\ cards[tasks[i].id].sr.state = "learning"
                  /\ cards[tasks[i].id].sr.learningStep = 0
                  /\ session'.currentIndex < Len(session'.queue)
        /\ \A i \in 1..Len(tasks) :
              (collectionsUpdatePut(i) /\ tasks[i].kind = "rateCard") =>
                  IF tasks[i].quality = 0
                  THEN \E j \in 1..Len(tasks') : /\ tasks'[j].pc = "requeue_get"
                                                 /\ tasks'[j].id = tasks[i].id
                  ELSE QueueIds(session'.queue) = QueueIds(session.queue)
        /\ (session.active /\ ~(\E i \in 1..Len(tasks) : requeueGet(i)))
              => QueueIds(session'.queue) = QueueIds(session.queue) ]_vars

----------------------------------------------------------------------------
(* The queue builder on its own: startStudySession over databases of up to *)
(* MaxCards cards in any mix of states, under collections whose two daily  *)
(* caps are small enough to bind, on the day the cards were last rated and *)
(* on the two days after.                                                  *)

\* scheduling states of a stored card: new, in learning (rated Good once),
\* in review and due on day 2 (Good twice), in review and due on day 5 (Easy)
QueueCardStates ==
    { Rated(NewCard, qs, DefaultSettings) : qs \in {<<>>, <<2>>, <<2, 2>>, <<3>>} }

QueueStores ==
    UNION { { [id \in 1..n |-> StoredCard(f[id], id)] : f \in [1..n -> QueueCardStates] }
            : n \in 0..MaxCards }

\* settings.newCardsPerDay and settings.reviewsPerDay of the collection
NewCaps    == {0, 1, 2, 20}
ReviewCaps == {0, 1, 200}

CapSettings ==
    { [DefaultSettings EXCEPT !.newCardsPerDay = n, !.reviewsPerDay = r] :
          n \in NewCaps, r \in ReviewCaps }

InitQueue ==
    /\ cards \in QueueStores
    /\ \E s \in CapSettings :
          collection = [id |-> 1, settings |-> s, updatedAt |-> 0,
                        stats |-> updateStatsOf(getByCollection(cards), todayString(0))]
    /\ clock \in { d * TicksPerDay : d \in 0..2 }
    /\ dstStart = 0
    /\ currentView = "collections"
    /\ session = NoSession
    /\ currentCard = 0
    /\ dom = [showAnswerBtn |-> FALSE, ratingButtons |-> FALSE,
              studyCard |-> FALSE, studyActions |-> FALSE, studyComplete |-> FALSE]
    /\ BackupIdle
    /\ MediaIdle
    /\ tasks = <<>>
    /\ ratings = 0
    /\ card = NewCard
    /\ settings = DefaultSettings
    /\ call = NoCall
    /\ calls = 0

NextQueue == startStudySession

SpecQueue == InitQueue /\ [][NextQueue]_vars

\* the positions of seq whose element satisfies the test given as the set
\* of elements that pass
PositionsIn(seq, passing) == { i \in 1..Len(seq) : seq[i] \in passing }

\* sub holds exactly the elements of seq at the positions pos, in the order
\* they have in seq
IsSelection(sub, seq, pos) ==
    /\ Len(sub) = Cardinality(pos)
    /\ \A k \in 1..Len(sub) :
          \E i \in pos : /\ sub[k] = seq[i]
                         /\ Cardinality({ j \in pos : j < i }) = k - 1

(* C19: getDueCards(cards, asOf) returns exactly the cards, in input       *)
(* order, that are new or learning, or in review with dueDate <= asOf.     *)
DueCardsAreTheEligibleOnes ==
    LET all == getByCollection(cards)
    IN  \A asOf \in 1..6 :
          LET eligible == { c \in { all[i] : i \in 1..Len(all) } :
                              \/ c.sr.state \in {"new", "learning"}
                              \/ /\ c.sr.state = "review"
                                 /\ c.sr.dueDate # Null
                                 /\ c.sr.dueDate <= asOf }
          IN  IsSelection(getDueCards(all, asOf), all, PositionsIn(all, eligible))

\* a session started while a review card is due later: it is in the store
\* and not in the queue, a card listed after it is
DueLaterExcludedWitness ==
    /\ session.active
    /\ \E i, j \in DOMAIN cards :
          /\ i < j
          /\ cards[i].sr.state = "review"
          /\ cards[i].sr.dueDate > todayString(clock)
          /\ \A k \in 1..Len(session.queue) : session.queue[k].id # i
          /\ \E k \in 1..Len(session.queue) : session.queue[k].id = j

(* C20: the queue built at session start holds at most newCardsPerDay new  *)
(* cards and at most reviewsPerDay learning or review cards, for every cap *)
(* value >= 0; its new cards are the first newCardsPerDay new cards of the *)
(* card list, in list order.                                               *)
QueueWithinDailyCaps ==
    session.active =>
        LET q        == session.queue
            newCap   == collection.settings.newCardsPerDay
            revCap   == collection.settings.reviewsPerDay
            all      == getByCollection(cards)
            newOfAll == SelectSeq(all, LAMBDA c : c.sr.state = "new")
            newOfQ   == SelectSeq(q, LAMBDA c : c.sr.state = "new")
            kept     == IF newCap < Len(newOfAll) THEN newCap ELSE Len(newOfAll)
        IN  /\ Len(newOfQ) <= newCap
            /\ Len(SelectSeq(q, LAMBDA c : c.sr.state # "new")) <= revCap
            /\ newOfQ = SubSeq(newOfAll, 1, kept)

----------------------------------------------------------------------------
(* The queue builder's ordering: startStudySession over databases whose    *)
(* review cards fall due on different days and differ in ease factor,      *)
(* under the default daily limits, on days 1, 2, 6 and 7.                  *)

\* the card after the ratings qs, all given at tick now (no daylight
\* saving, Math.random() drawing 0)
RECURSIVE RatedAt(_, _, _, _)
RatedAt(c, qs, s, now) ==
    IF qs = <<>> THEN c
    ELSE RatedAt([c EXCEPT !.sr = calculateNextReview(0, c, Head(qs), s, now, 0).result],
                 Tail(qs), s, now)

\* new; learning at step 0 and at step 1; in review: due day 2 with ease
\* 2.5, due day 5 with ease 2.5, due day 6 with ease 2.36 and with ease 2.5
OrderCardStates ==
    { Rated(NewCard, qs, DefaultSettings) :
          qs \in {<<>>, <<0>>, <<2>>, <<2, 2>>, <<3>>, <<3, 1>>} }
    \cup { RatedAt(NewCard, <<3>>, DefaultSettings, TicksPerDay) }

OrderStores ==
    UNION { { [id \in 1..n |-> StoredCard(f[id], id)] : f \in [1..n -> OrderCardStates] }
            : n \in 0..MaxCards }

InitOrder ==
    /\ cards \in OrderStores
    /\ collection = [id |-> 1, settings |-> DefaultSettings, updatedAt |-> 0,
                     stats |-> updateStatsOf(getByCollection(cards), todayString(0))]
    /\ clock \in { d * TicksPerDay : d \in {0, 1, 5, 6} }
    /\ dstStart = 0
    /\ currentView = "collections"
    /\ session = NoSession
    /\ currentCard = 0
    /\ dom = [showAnswerBtn |-> FALSE, ratingButtons |-> FALSE,
              studyCard |-> FALSE, studyActions |-> FALSE, studyComplete |-> FALSE]
    /\ BackupIdle
    /\ MediaIdle
    /\ tasks = <<>>
    /\ ratings = 0
    /\ card = NewCard
    /\ settings = DefaultSettings
    /\ call = NoCall
    /\ calls = 0

SpecOrder == InitOrder /\ [][NextQueue]_vars

\* the place of a card in the order of categories on the day asOf:
\* overdue review, review due on the day, learning, new
CategoryRank(c, asOf) ==
    IF c.sr.state = "new" THEN 4
    ELSE IF c.sr.state = "learning" THEN 3
    ELSE IF c.sr.dueDate = asOf THEN 2
    ELSE 1

(* C22: in the built queue every overdue review card comes before every    *)
(* review card due on the day, these before every learning card, and these *)
(* before every new card.                                                  *)
QueueOrderedByCategory ==
    session.active =>
        \A i, j \in 1..Len(session.queue) :
            i < j => CategoryRank(session.queue[i], todayString(clock))
                        <= CategoryRank(session.queue[j], todayString(clock))

\* an overdue card, a card due today and a new card, stored in the reverse
\* order, queued in this one
CategoriesReorderedWitness ==
    /\ session.active
    /\ Len(session.queue) = 3
    /\ \A k \in 1..3 : CategoryRank(session.queue[k], todayString(clock))
                          = <<1, 2, 4>>[k]
    /\ session.queue[1].sr.dueDate < todayString(clock)
    /\ session.queue[1].id > session.queue[2].id
    /\ session.queue[2].id > session.queue[3].id

DueTodayByEaseLearningByStep ==
    session.active =>
        \A i, j \in 1..Len(session.queue) :
            LET a  == session.queue[i]
                b  == session.queue[j]
                ra == CategoryRank(a, todayString(clock))
                rb == CategoryRank(b, todayString(clock))
            IN  i < j =>
                  /\ (ra = 2 /\ rb = 2) => a.sr.easeFactor <= b.sr.easeFactor
                  /\ (ra = 3 /\ rb = 3) => a.sr.learningStep <= b.sr.learningStep

\* two cards due today, the harder one later in the input and queued first,
\* followed by a learning card
SortedWithinCategoryWitness ==
    /\ session.active
    /\ Len(session.queue) = 3
    /\ CategoryRank(session.queue[1], todayString(clock)) = 2
    /\ CategoryRank(session.queue[2], todayString(clock)) = 2
    /\ session.queue[1].sr.easeFactor < session.queue[2].sr.easeFactor
    /\ session.queue[1].id > session.queue[2].id
    /\ session.queue[3].sr.state = "learning"

----------------------------------------------------------------------------
(* Several study sessions on one day: a collection of new cards whose      *)
(* daily limits are 1.  The user studies, and when the session is complete *)
(* and no storage call is in flight, goes back and studies again.          *)

\* goBack() and studyCollection(): navigateTo('collections'), then
\* navigateTo('study', {collectionId}), which is startStudySession again
studyAgain ==
    /\ currentView = "study"
    /\ session.active
    /\ dom.studyComplete
    /\ tasks = <<>>
    /\ LET queue == buildQueue(getByCollection(cards), collection.settings,
                               todayString(clock)).queue
       IN  showNextCard([active |-> TRUE, collectionId |-> collection.id,
                         settings |-> collection.settings, queue |-> queue,
                         currentIndex |-> 0, reviewed |-> 0, correct |-> 0],
                        tasks)
    /\ UNCHANGED <<engineVars, backupVars, mediaVars, clock, dstStart, storageVars, currentView, ratings>>

\* a collection limited to one new card and one review a day
DaySettings ==
    [DefaultSettings EXCEPT !.newCardsPerDay = 1, !.reviewsPerDay = 1]

\* two or three newly created cards
DayStores ==
    { [id \in 1..n |-> StoredCard(NewCard, id)] : n \in 2..MaxCards }

InitDay ==
    /\ cards \in DayStores
    /\ collection = [id |-> 1, settings |-> DaySettings, updatedAt |-> 0,
                     stats |-> updateStatsOf(getByCollection(cards), todayString(0))]
    /\ clock = 0
    /\ dstStart \in TimeZones
    /\ currentView = "collections"
    /\ session = NoSession
    /\ currentCard = 0
    /\ dom = [showAnswerBtn |-> FALSE, ratingButtons |-> FALSE,
              studyCard |-> FALSE, studyActions |-> FALSE, studyComplete |-> FALSE]
    /\ BackupIdle
    /\ MediaIdle
    /\ tasks = <<>>
    /\ ratings = 0
    /\ card = NewCard
    /\ settings = DefaultSettings
    /\ call = NoCall
    /\ calls = 0

NextDay ==
    \/ NextSession
    \/ studyAgain

SpecDay == InitDay /\ [][NextDay]_vars

\* the cards that were put into a queue as new cards today: the new cards of
\* the current queue, and the stored cards whose first rating was today
IntroducedToday ==
    { session.queue[k].id : k \in { k \in 1..Len(session.queue) :
                                      session.queue[k].sr.state = "new" } }
    \cup { id \in DOMAIN cards :
             /\ cards[id].sr.history # <<>>
             /\ todayString(cards[id].sr.history[1].date) = todayString(clock) }

(* C21: over all sessions started for the collection on one day, at most   *)
(* newCardsPerDay distinct new cards are put into study queues and at most *)
(* reviewsPerDay entries into the review part of the queues.  (Of the      *)
(* review entries only those of the current queue can be told from the     *)
(* state; they are a lower bound of the day's.)                            *)
DailyLimitsHoldAcrossSessions ==
    session.active =>
        /\ Cardinality(IntroducedToday) <= collection.settings.newCardsPerDay
        /\ Len(SelectSeq(session.queue, LAMBDA c : c.sr.state # "new"))
              <= collection.settings.reviewsPerDay

----------------------------------------------------------------------------
(* Statistics (sr-algorithm.js): getStudyStats and calculateRetention      *)
(* called on the cards of a collection                                     *)

\* variant: only new cards and due review cards count as due
countsAsDueNoLearning(c, today) ==
    IF c.sr.state = "new" THEN TRUE
    ELSE IF c.sr.state = "learning" THEN FALSE
    ELSE c.sr.dueDate # Null /\ c.sr.dueDate <= today

\* getStudyStats: does the card add to dueToday?  New and learning cards
\* always do, any other card if (card.sr.dueDate && card.sr.dueDate <= today)
countsAsDue(c, today) ==
    IF c.sr.state = "new" THEN TRUE
    ELSE IF c.sr.state = "learning" THEN TRUE
    ELSE c.sr.dueDate # Null /\ c.sr.dueDate <= today

\* getStudyStats(cards) on the day today; a card that is neither new nor
\* learning is counted as a review card; averageEase is the quotient
\* totalEase / cards.length, kept as its two operands (2.5 for no cards)
getStudyStats(cs, today) ==
    LET count(P(_)) == Len(SelectSeq(cs, P))
    IN  [total       |-> Len(cs),
         new         |-> count(LAMBDA c : c.sr.state = "new"),
         learning    |-> count(LAMBDA c : c.sr.state = "learning"),
         review      |-> count(LAMBDA c : c.sr.state # "new" /\ c.sr.state # "learning"),
         dueToday    |-> count(LAMBDA c : countsAsDue(c, today)),
         averageEase |-> IF Len(cs) > 0 THEN <<SumEase(cs), Len(cs)>>
                         ELSE <<DEFAULT_EASE_FACTOR, 1>>]

\* variant: Hard counts as a correct review
isCorrectFromHard(review) == review.quality >= 1

\* if (review.quality >= 2) correctReviews++
isCorrect(review) == review.quality >= 2

\* totalReviews and correctReviews after the two nested forEach loops; a
\* card without a history array is passed over
RECURSIVE reviewCounts(_)
reviewCounts(cs) ==
    IF cs = <<>> THEN [totalReviews |-> 0, correctReviews |-> 0]
    ELSE LET rest == reviewCounts(Tail(cs))
             h    == IF Has(Head(cs).sr, "history") THEN Head(cs).sr.history ELSE <<>>
         IN  [totalReviews   |-> Len(h) + rest.totalReviews,
              correctReviews |-> Len(SelectSeq(h, isCorrect)) + rest.correctReviews]

\* calculateRetention(cards): (correctReviews / totalReviews) * 100, kept as
\* numerator and denominator; 0 when there is no review
calculateRetention(cs) ==
    LET n == reviewCounts(cs)
    IN  IF n.totalReviews > 0 THEN <<n.correctReviews * 100, n.totalReviews>>
        ELSE <<0, 1>>

\* SRAlgorithm.getStudyStats(cards) on the cards of the collection
getStudyStatsCall ==
    /\ call' = [op |-> "getStudyStats", cards |-> getByCollection(cards),
                now |-> clock,
                result |-> getStudyStats(getByCollection(cards), todayString(clock))]
    /\ UNCHANGED <<card, settings, calls, clock, dstStart, storageVars, appVars, backupVars, mediaVars>>

\* SRAlgorithm.calculateRetention(cards) on the cards of the collection
calculateRetentionCall ==
    /\ call' = [op |-> "calculateRetention", cards |-> getByCollection(cards),
                now |-> clock,
                result |-> calculateRetention(getByCollection(cards))]
    /\ UNCHANGED <<card, settings, calls, clock, dstStart, storageVars, appVars, backupVars, mediaVars>>

NextStats ==
    \/ getStudyStatsCall
    \/ calculateRetentionCall

SpecStats == InitOrder /\ [][NextStats]_vars

\* how many cards of the list cs are in one of the states
InStates(cs, states) == Cardinality({ i \in 1..Len(cs) : cs[i].sr.state \in states })

(* C27: getStudyStats(cards): total is the number of cards and the sum of  *)
(* the new, learning and review counts; dueToday is the number of new      *)
(* cards plus learning cards plus review cards with dueDate <= today; for  *)
(* the empty list total is 0, dueToday 0 and averageEase 2.5 (250          *)
(* hundredths).                                                            *)
StudyStatsCountCards ==
    call.op = "getStudyStats" =>
        LET cs    == call.cards
            r     == call.result
            today == todayString(call.now)
            dueReview == Cardinality({ i \in 1..Len(cs) :
                             /\ cs[i].sr.state = "review"
                             /\ cs[i].sr.dueDate # Null
                             /\ cs[i].sr.dueDate <= today })
        IN  /\ r.total = Len(cs)
            /\ r.total = r.new + r.learning + r.review
            /\ r.dueToday = InStates(cs, {"new"}) + InStates(cs, {"learning"}) + dueReview
            /\ cs = <<>> => (/\ r.total = 0 /\ r.dueToday = 0
                             /\ r.averageEase[1] = 250 * r.averageEase[2])

\* statistics of a new card, a learning card and a review card due later
StudyStatsWitness ==
    /\ call.op = "getStudyStats"
    /\ call.result.total = 3
    /\ call.result.new = 1
    /\ call.result.learning = 1
    /\ call.result.review = 1
    /\ call.result.dueToday = 2

(* C28: calculateRetention(cards) is 100 * (history records with quality   *)
(* >= 2) / (all history records), over all the cards together, and 0 when  *)
(* no card has a history record.                                           *)
RetentionIsShareOfCorrect ==
    call.op = "calculateRetention" =>
        LET cs      == call.cards
            records == { <<i, k>> \in (1..Len(cs)) \X (1..20) :
                             k <= Len(cs[i].sr.history) }
            correct == { p \in records : cs[p[1]].sr.history[p[2]].quality >= 2 }
            r       == call.result
        IN  /\ r[2] > 0
            /\ records = {} => r[1] = 0
            /\ records # {} =>
                  r[1] * Cardinality(records) = 100 * Cardinality(correct) * r[2]

\* retention over two cards with records on both sides of the threshold
RetentionWitness ==
    /\ call.op = "calculateRetention"
    /\ Len(call.cards) >= 2
    /\ \E k \in 1..Len(call.cards[1].sr.history) :
          call.cards[1].sr.history[k].quality = 1
    /\ Len(call.cards[2].sr.history) >= 1
    /\ call.result[1] > 0
    /\ call.result[1] < 100 * call.result[2]

----------------------------------------------------------------------------
(* Backup (export module, storage.js): exportCollection writes a           *)
(* collection and its cards to a file, importCollectionWithProgress reads  *)
(* such a file into a new collection.  A text is the sequence of its       *)
(* characters.  JSON.stringify followed by JSON.parse returns an equal     *)
(* value for what the store holds (strings, finite numbers, null, arrays   *)
(* and plain objects), so the file is kept as the object JSON.parse gives. *)
(* Identifiers are fresh numbers.  The awaited storage calls of one        *)
(* imported card are taken as one step: they touch only the new            *)
(* collection and its cards, which nothing else reads or writes.           *)

\* a text of n characters
Text(n) == [i \in 1..n |-> "x"]

\* ' (Restored)'
RestoredSuffix == <<" ", "(", "R", "e", "s", "t", "o", "r", "e", "d", ")">>

\* data.front?.x || dflt for a property that holds a string or an array when
\* it is there: an array is truthy, and '' || '' is ''
SideOrDefault(data, side, field, dflt) ==
    IF Has(data, side) /\ Has(data[side], field) THEN data[side][field] ELSE dflt

\* data.front?.html || null
HtmlOrNull(data, side) ==
    IF Has(data, side) THEN OrDefault(data[side], "html", Null) ELSE Null

\* the object Storage.cards.create(data) stores under the identifier id
cardsCreate(data, id, now) ==
    [id           |-> id,
     collectionId |-> data.collectionId,
     front        |-> [text   |-> SideOrDefault(data, "front", "text", ""),
                       html   |-> HtmlOrNull(data, "front"),
                       images |-> SideOrDefault(data, "front", "images", <<>>),
                       audio  |-> SideOrDefault(data, "front", "audio", <<>>)],
     back         |-> [text   |-> SideOrDefault(data, "back", "text", ""),
                       html   |-> HtmlOrNull(data, "back"),
                       images |-> SideOrDefault(data, "back", "images", <<>>),
                       audio  |-> SideOrDefault(data, "back", "audio", <<>>)],
     tags         |-> IF Has(data, "tags") THEN data.tags ELSE <<>>,
     createdAt    |-> now,
     updatedAt    |-> now,
     sr           |-> NewCard.sr]

\* the object Storage.cards.update(id, {sr}) puts for the stored card
\* existing: updated.sr = { ...existing.sr, ...data.sr }
cardsUpdateSr(existing, sr, now) ==
    [existing EXCEPT !.sr = sr @@ existing.sr, !.updatedAt = now]

\* the object Storage.collections.create(data) stores under the identifier id
collectionsCreate(data, id, now) ==
    LET s == IF Has(data, "settings") THEN data.settings ELSE [none |-> 0]
    IN  [id          |-> id,
         name        |-> data.name,
         description |-> IF Has(data, "description") THEN data.description ELSE "",
         createdAt   |-> now,
         updatedAt   |-> now,
         color       |-> OrDefault(data, "color", Null),
         settings    |->
             [newCardsPerDay     |-> OrDefault(s, "newCardsPerDay", 20),
              reviewsPerDay      |-> OrDefault(s, "reviewsPerDay", 200),
              learningSteps      |-> IF Has(s, "learningSteps") THEN s.learningSteps
                                     ELSE <<1, 10>>,
              graduatingInterval |-> OrDefault(s, "graduatingInterval", 1),
              easyInterval       |-> OrDefault(s, "easyInterval", 4),
              startingEase       |-> OrDefault(s, "startingEase", 250)],
         stats       |-> [totalCards |-> 0, newCards |-> 0, learningCards |-> 0,
                          reviewCards |-> 0, dueToday |-> 0,
                          averageEase |-> <<250, 1>>, lastStudied |-> Null]]

\* Storage.cards.getByCollection(collectionId)
cardsOf(store, collectionId) ==
    SelectSeq(getByCollection(store), LAMBDA c : c.collectionId = collectionId)

\* the collection record after Storage.collections.updateStats(c.id)
withStats(c, store, now) ==
    [c EXCEPT !.stats = updateStatsOf(cardsOf(store, c.id), todayString(now)),
              !.updatedAt = now]

\* variant: the back of a card is not looked at
validateImportFrontOnly(data) ==
    /\ Has(data, "version")
    /\ Has(data, "collection")
    /\ Has(data.collection, "name") /\ data.collection.name # <<>>
    /\ Len(data.collection.name) <= 100
    /\ Has(data, "cards")
    /\ \A k \in 1..Len(data.cards) :
          Has(data.cards[k], "front") /\ Has(data.cards[k].front, "text")
    /\ Len(data.cards) <= 10000

\* validateImport(data).valid
validateImport(data) ==
    /\ Has(data, "version")
    /\ Has(data, "collection")
    /\ Has(data.collection, "name") /\ data.collection.name # <<>>
    /\ Len(data.collection.name) <= 100
    /\ Has(data, "cards")
    /\ \A k \in 1..Len(data.cards) :
          /\ Has(data.cards[k], "front") /\ Has(data.cards[k].front, "text")
          /\ Has(data.cards[k], "back") /\ Has(data.cards[k].back, "text")
    /\ Len(data.cards) <= 10000

\* what a card shows: text alone, or text with media and tags
Contents ==
    { [front |-> [text |-> "q", html |-> Null, images |-> <<>>, audio |-> <<>>],
       back  |-> [text |-> "a", html |-> Null, images |-> <<>>, audio |-> <<>>],
       tags  |-> <<>>],
      [front |-> [text |-> "q", html |-> Null,
                  images |-> <<"data:image/png;base64,AA">>, audio |-> <<>>],
       back  |-> [text |-> "a", html |-> Null, images |-> <<>>,
                  audio |-> <<"data:audio/mpeg;base64,BB">>],
       tags  |-> <<"t1", "t2">>] }

\* scheduling states of the cards of a collection that is backed up: new,
\* learning, review, and relearning after a lapse
BackupCardStates ==
    { Rated(NewCard, qs, DefaultSettings) :
          qs \in {<<>>, <<2>>, <<2, 2>>, <<3, 0>>} }

\* databases a backup starts from: up to two cards of collection 1
BackupStores ==
    UNION { [1..n -> { StoredCard(c, 1) @@ content :
                           c \in BackupCardStates, content \in Contents }] :
            n \in 0..2 }

\* lengths of the names a collection is given
NameLengths == {1, 100, 101}

InitBackup ==
    /\ \E store \in BackupStores :
          cards = [id \in DOMAIN store |-> [store[id] EXCEPT !.id = id]]
    /\ collection =
          withStats(collectionsCreate([name |-> Text(1), description |-> "d"], 1, 0),
                    cards, 0)
    /\ clock \in {0, TicksPerDay}
    /\ dstStart = 0
    /\ currentView = "collections"
    /\ session = NoSession
    /\ currentCard = 0
    /\ dom = [showAnswerBtn |-> FALSE, ratingButtons |-> FALSE,
              studyCard |-> FALSE, studyActions |-> FALSE, studyComplete |-> FALSE]
    /\ BackupIdle
    /\ MediaIdle
    /\ tasks = <<>>
    /\ ratings = 0
    /\ card = NewCard
    /\ settings = DefaultSettings
    /\ call = NoCall
    /\ calls = 0

\* editCollectionName(): the name typed into the prompt is stored when it is
\* not empty and differs from the present one
editCollectionName(newName) ==
    /\ newName # <<>>
    /\ newName # collection.name
    /\ collection' = [collection EXCEPT !.name = newName, !.updatedAt = clock]
    /\ UNCHANGED <<engineVars, backupVars, mediaVars, clock, dstStart, cards, appVars>>

\* Export.exportCollection(collectionId): the file offered for download
exportCollection ==
    /\ LET cs == cardsOf(cards, collection.id)
       IN  download' = [version    |-> "1.0",
                        exportDate |-> clock,
                        appVersion |-> "1.0.0",
                        collection |-> collection,
                        cards      |-> cs,
                        checksum   |-> <<"sha256", collection, cs>>]
    /\ UNCHANGED <<engineVars, mediaVars, restored, clock, dstStart, storageVars, appVars>>

\* importCollectionWithProgress(file) up to the loop over the cards: the
\* file is read, parsed and validated, and the new collection is created
importStart ==
    /\ download # NoFile
    /\ restored = NoCollection
    /\ tasks = <<>>
    /\ IF ~validateImport(download)
       THEN /\ call' = [op |-> "importCollectionWithProgress", file |-> download,
                        error |-> "Invalid import file"]
            /\ UNCHANGED <<restored, tasks>>
       ELSE /\ restored' = collectionsCreate(
                   [name        |-> download.collection.name \o RestoredSuffix,
                    description |-> download.collection.description,
                    color       |-> download.collection.color,
                    settings    |-> download.collection.settings],
                   collection.id + 1, clock)
            /\ tasks' = <<[kind |-> "import", pc |-> "card", data |-> download,
                           newCollection |-> restored', cardsImported |-> 0]>>
            /\ UNCHANGED call
    /\ UNCHANGED <<card, settings, calls, mediaVars, download, clock, dstStart, storageVars,
                   currentView, session, currentCard, dom, ratings>>

\* one round of the loop: Storage.cards.create for the next card of the
\* file, then Storage.cards.update with its sr when it has one; each of the
\* two ends with collections.updateStats
importCard(i) ==
    /\ tasks[i].kind = "import"
    /\ tasks[i].cardsImported < Len(tasks[i].data.cards)
    /\ LET t       == tasks[i]
           c       == t.data.cards[t.cardsImported + 1]
           ids     == { cards[id].id : id \in DOMAIN cards }
           newId   == CHOOSE id \in 1..(Cardinality(ids) + 1) : id \notin ids
           newCard == cardsCreate([collectionId |-> t.newCollection.id,
                                   front |-> c.front, back |-> c.back,
                                   tags |-> c.tags], newId, clock)
           stored  == IF Has(c, "sr")
                      THEN cardsUpdateSr(newCard,
                               [history |-> IF Has(c.sr, "history")
                                            THEN c.sr.history ELSE <<>>] @@ c.sr,
                               clock)
                      ELSE newCard
       IN  /\ cards' = (newId :> stored) @@ cards
           /\ restored' = withStats(restored, cards', clock)
           /\ tasks' = Continue(i, [t EXCEPT !.cardsImported = @ + 1])
    /\ UNCHANGED <<engineVars, mediaVars, download, clock, dstStart, collection,
                   currentView, session, currentCard, dom, ratings>>

\* after the loop: collections.updateStats for the new collection, and the
\* call returns the collection as it was created and the number of cards
importFinish(i) ==
    /\ tasks[i].kind = "import"
    /\ tasks[i].cardsImported = Len(tasks[i].data.cards)
    /\ restored' = withStats(restored, cards, clock)
    /\ call' = [op |-> "importCollectionWithProgress", file |-> tasks[i].data,
                result |-> [collection |-> tasks[i].newCollection,
                            cardsImported |-> tasks[i].cardsImported]]
    /\ tasks' = Finish(i)
    /\ UNCHANGED <<card, settings, calls, mediaVars, download, clock, dstStart, cards,
                   collection, currentView, session, currentCard, dom, ratings>>

NextBackup ==
    \/ \E n \in NameLengths : editCollectionName(Text(n))
    \/ exportCollection
    \/ importStart
    \/ \E i \in 1..Len(tasks) : importCard(i)
    \/ \E i \in 1..Len(tasks) : importFinish(i)

SpecBackup == InitBackup /\ [][NextBackup]_vars

\* the card c of a file is stored in the collection cid with its scheduling
\* state, its two sides and its tags
RestoredAs(c, cid) ==
    \E id \in DOMAIN cards :
        /\ cards[id].collectionId = cid
        /\ cards[id].sr = c.sr
        /\ cards[id].front = c.front
        /\ cards[id].back = c.back
        /\ cards[id].tags = c.tags

(* C30: importCollectionWithProgress of a file written by exportCollection *)
(* succeeds and leaves, for every card of the file, a stored card of the   *)
(* new collection with the same scheduling state (state, interval,         *)
(* easeFactor, repetitions, learningStep, dueDate, lastReview, history)    *)
(* and the same front, back and tags.                                      *)
RestoreRoundTrip ==
    call.op = "importCollectionWithProgress" =>
        /\ ~Has(call, "error")
        /\ \A k \in 1..Len(call.file.cards) :
              RestoredAs(call.file.cards[k], call.result.collection.id)

\* the same for files whose collection name the import accepts
RestoreRoundTripOfAcceptedFile ==
    (call.op = "importCollectionWithProgress" /\ ~Has(call, "error")) =>
        /\ call.result.cardsImported = Len(call.file.cards)
        /\ \A k \in 1..Len(call.file.cards) :
              RestoredAs(call.file.cards[k], call.result.collection.id)

\* a restore that brought back a card under review with its history
RestoredReviewCard ==
    /\ call.op = "importCollectionWithProgress"
    /\ ~Has(call, "error")
    /\ \E k \in 1..Len(call.file.cards) :
          /\ call.file.cards[k].sr.state = "review"
          /\ call.file.cards[k].sr.history # <<>>
          /\ Len(call.file.cards[k].tags) = 2
          /\ RestoredAs(call.file.cards[k], call.result.collection.id)

----------------------------------------------------------------------------
(* The queue functions called as a library: getDueCards(cards, date) for   *)
(* a date of the caller's choice, and sortStudyQueue on the list it        *)
(* returned                                                                *)

\* how far ahead of today a caller asks for due cards, in days
DaysAhead == {0, 1, 5}

\* SRAlgorithm.getDueCards(cards, date) on the cards of the collection
getDueCardsCall(ahead) ==
    /\ LET dateString == todayString(clock) + ahead
       IN  call' = [op |-> "getDueCards", cards |-> getByCollection(cards),
                    date |-> dateString,
                    result |-> getDueCards(getByCollection(cards), dateString)]
    /\ UNCHANGED <<card, settings, calls, clock, dstStart, storageVars, appVars,
                   backupVars, mediaVars>>

\* SRAlgorithm.sortStudyQueue(cards) on the list getDueCards returned
sortStudyQueueCall ==
    /\ call.op = "getDueCards"
    /\ call' = [op |-> "sortStudyQueue", cards |-> call.result, now |-> clock,
                result |-> sortStudyQueue(call.result, todayString(clock))]
    /\ UNCHANGED <<card, settings, calls, clock, dstStart, storageVars, appVars,
                   backupVars, mediaVars>>

NextSort ==
    \/ \E ahead \in DaysAhead : getDueCardsCall(ahead)
    \/ sortStudyQueueCall

SpecSort == InitOrder /\ [][NextSort]_vars

(* C35: sortStudyQueue returns a permutation of its input: the output is   *)
(* as long as the input and every card of the input is in it.              *)
SortKeepsEveryCard ==
    call.op = "sortStudyQueue" =>
        /\ Len(call.result) = Len(call.cards)
        /\ \A i \in 1..Len(call.cards) :
              \E j \in 1..Len(call.result) : call.result[j] = call.cards[i]

\* the same for the cards that are due on the day of the sort
SortKeepsCardsDueByToday ==
    call.op = "sortStudyQueue" =>
        \A i \in 1..Len(call.cards) :
            (\/ call.cards[i].sr.state \in {"new", "learning"}
             \/ call.cards[i].sr.dueDate <= todayString(call.now))
                => Cardinality({ j \in 1..Len(call.result) :
                                    call.result[j] = call.cards[i] }) = 1

----------------------------------------------------------------------------
(* Deleting a collection (storage.js) while a card is being created in it. *)
(* Every request is made in a transaction of its own; transactions whose   *)
(* object stores overlap run in the order they were created, and tasks is  *)
(* kept in that order.                                                     *)

\* the object stores of the transaction a task waits for
Scope(pc) ==
    IF pc = "delete_txn" THEN {"cards", "collections"}
    ELSE IF pc \in {"stats_get", "stats_put"} THEN {"collections"}
    ELSE {"cards"}

\* no transaction created earlier shares an object store with that of task i
Ready(i) ==
    \A j \in 1..(i - 1) : Scope(tasks[j].pc) \cap Scope(tasks[i].pc) = {}

\* Storage.collections.delete(id) is called: cards.getByCollection(id) is
\* requested
collectionsDelete ==
    /\ collection.id # 0
    /\ call = NoCall
    /\ call' = [op |-> "collections.delete", id |-> collection.id,
                outcome |-> "pending"]
    /\ tasks' = Append(tasks, [kind |-> "delete", pc |-> "delete_read",
                               id |-> collection.id])
    /\ UNCHANGED <<card, settings, calls, backupVars, mediaVars, clock, dstStart, storageVars,
                   currentView, session, currentCard, dom, ratings>>

\* getByCollection returned cardsToDelete; the readwrite transaction on both
\* stores is created with one delete request per card and one for the
\* collection
deleteRead(i) ==
    /\ tasks[i].pc = "delete_read" /\ Ready(i)
    /\ tasks' = Continue(i, [tasks[i] EXCEPT !.pc = "delete_txn"]
                  @@ [cardsToDelete |->
                         { id \in DOMAIN cards :
                              cards[id].collectionId = tasks[i].id }])
    /\ UNCHANGED <<engineVars, backupVars, mediaVars, clock, dstStart, storageVars,
                   currentView, session, currentCard, dom, ratings>>

\* transaction.oncomplete: the cards read before and the collection are gone
deleteTxn(i) ==
    /\ tasks[i].pc = "delete_txn" /\ Ready(i)
    /\ cards' = [id \in DOMAIN cards \ tasks[i].cardsToDelete |-> cards[id]]
    /\ collection' = IF collection.id = tasks[i].id THEN NoCollection
                     ELSE collection
    /\ call' = [call EXCEPT !.outcome = "resolved"]
    /\ tasks' = Finish(i)
    /\ UNCHANGED <<card, settings, calls, backupVars, mediaVars, clock, dstStart,
                   currentView, session, currentCard, dom, ratings>>

\* identifiers in use, stored or on their way into the store
UsedIds ==
    DOMAIN cards \cup { tasks[i].card.id :
                           i \in { j \in 1..Len(tasks) : tasks[j].kind = "create" } }

\* Storage.cards.create(data) for the collection: store.add(card) is
\* requested
cardsCreateCall(content) ==
    /\ collection.id # 0
    /\ Cardinality(UsedIds) < MaxCards
    /\ \A i \in 1..Len(tasks) : tasks[i].kind # "create"
    /\ LET newId == CHOOSE id \in 1..MaxCards : id \notin UsedIds
       IN  tasks' = Append(tasks,
               [kind |-> "create", pc |-> "create_add",
                collectionId |-> collection.id,
                card |-> cardsCreate([collectionId |-> collection.id] @@ content,
                                     newId, clock)])
    /\ UNCHANGED <<engineVars, backupVars, mediaVars, clock, dstStart, storageVars,
                   currentView, session, currentCard, dom, ratings>>

\* store.add(card) succeeded; collections.updateStats asks for the cards
createAdd(i) ==
    /\ tasks[i].pc = "create_add" /\ Ready(i)
    /\ cards' = (tasks[i].card.id :> tasks[i].card) @@ cards
    /\ tasks' = Continue(i, [tasks[i] EXCEPT !.pc = "stats_read"])
    /\ UNCHANGED <<engineVars, backupVars, mediaVars, clock, dstStart, collection,
                   currentView, session, currentCard, dom, ratings>>

\* updateStats: getByCollection returned; collections.update asks for the
\* collection
createStatsRead(i) ==
    /\ tasks[i].kind = "create"
    /\ tasks[i].pc = "stats_read" /\ Ready(i)
    /\ tasks' = Continue(i, [tasks[i] EXCEPT !.pc = "stats_get"]
                  @@ [stats |-> updateStatsOf(cardsOf(cards, tasks[i].collectionId),
                                              todayString(clock))])
    /\ UNCHANGED <<engineVars, backupVars, mediaVars, clock, dstStart, storageVars,
                   currentView, session, currentCard, dom, ratings>>

\* collections.update: this.get(id) returned; without a collection it throws
\* StorageError('Collection not found'), otherwise it puts the merged record
createStatsGet(i) ==
    /\ tasks[i].kind = "create"
    /\ tasks[i].pc = "stats_get" /\ Ready(i)
    /\ IF collection.id # tasks[i].collectionId
       THEN tasks' = Finish(i)
       ELSE tasks' = Continue(i, [tasks[i] EXCEPT !.pc = "stats_put"]
                       @@ [pendingCollection |->
                              [collection EXCEPT !.stats = tasks[i].stats,
                                                 !.updatedAt = clock]])
    /\ UNCHANGED <<engineVars, backupVars, mediaVars, clock, dstStart, storageVars,
                   currentView, session, currentCard, dom, ratings>>

\* store.put(updated) of the collection succeeded; cards.create resolves
createStatsPut(i) ==
    /\ tasks[i].kind = "create"
    /\ tasks[i].pc = "stats_put" /\ Ready(i)
    /\ collection' = tasks[i].pendingCollection
    /\ tasks' = Finish(i)
    /\ UNCHANGED <<engineVars, backupVars, mediaVars, clock, dstStart, cards,
                   currentView, session, currentCard, dom, ratings>>

NextDelete ==
    \/ collectionsDelete
    \/ \E i \in 1..Len(tasks) : deleteRead(i)
    \/ \E i \in 1..Len(tasks) : deleteTxn(i)
    \/ \E content \in Contents : cardsCreateCall(content)
    \/ \E i \in 1..Len(tasks) : createAdd(i)
    \/ \E i \in 1..Len(tasks) : createStatsRead(i)
    \/ \E i \in 1..Len(tasks) : createStatsGet(i)
    \/ \E i \in 1..Len(tasks) : createStatsPut(i)

SpecDelete == InitBackup /\ [][NextDelete]_vars

\* Storage.collections.delete has resolved and every call that was made
\* before it resolved has ended
DeleteSettled ==
    /\ call.op = "collections.delete"
    /\ call.outcome = "resolved"
    /\ tasks = <<>>

(* C31: once Storage.collections.delete(id) has completed, and the calls   *)
(* that overlapped it have ended, the collection does not exist and no     *)
(* card with collectionId = id is in the cards store.                      *)
DeleteLeavesNothing ==
    DeleteSettled =>
        /\ collection.id # call.id
        /\ \A id \in DOMAIN cards : cards[id].collectionId # call.id

----------------------------------------------------------------------------
(* The cached statistics (storage.js) against SRAlgorithm.getStudyStats:   *)
(* cards are created and rated while the clock moves on, every write ends  *)
(* with collections.updateStats, and getStudyStats is called on the cards  *)
(* of the collection.  A write is taken with its updateStats as one step.  *)

InitCache ==
    /\ cards = <<>>
    /\ collection = collectionsCreate([name |-> Text(1), description |-> "d"], 1, 0)
    /\ clock = 0
    /\ dstStart = 0
    /\ currentView = "collections"
    /\ session = NoSession
    /\ currentCard = 0
    /\ dom = [showAnswerBtn |-> FALSE, ratingButtons |-> FALSE,
              studyCard |-> FALSE, studyActions |-> FALSE, studyComplete |-> FALSE]
    /\ BackupIdle
    /\ MediaIdle
    /\ tasks = <<>>
    /\ ratings = 0
    /\ card = NewCard
    /\ settings = DefaultSettings
    /\ call = NoCall
    /\ calls = 0

\* saveCard() for a new card: Storage.cards.create, which ends with
\* collections.updateStats
createStored ==
    /\ Cardinality(DOMAIN cards) < 2
    /\ LET newId == Cardinality(DOMAIN cards) + 1
           data  == [collectionId |-> collection.id,
                     front |-> [text |-> "q"], back |-> [text |-> "a"],
                     tags |-> <<>>]
       IN  cards' = (newId :> cardsCreate(data, newId, clock)) @@ cards
    /\ collection' = withStats(collection, cards', clock)
    /\ UNCHANGED <<engineVars, backupVars, mediaVars, clock, dstStart, appVars>>

\* rateCard(quality) on a stored card: calculateNextReview, then
\* Storage.cards.update(card.id, {sr}), which ends with
\* collections.updateStats
rateStored(id, quality) ==
    /\ id \in DOMAIN cards
    /\ calls < MaxCalls
    /\ LET out == calculateNextReview(dstStart, cards[id], quality,
                                      collection.settings, clock, 0)
       IN  cards' = [cards EXCEPT ![id] = cardsUpdateSr(cards[id], out.result, clock)]
    /\ collection' = withStats(collection, cards', clock)
    /\ calls' = calls + 1
    /\ UNCHANGED <<card, settings, call, backupVars, mediaVars, clock, dstStart, appVars>>

NextCache ==
    \/ createStored
    \/ \E id \in 1..2, quality \in Qualities : rateStored(id, quality)
    \/ Tick
    \/ getStudyStatsCall

SpecCache == InitCache /\ [][NextCache]_vars

\* getStudyStats was called on the cards as they are stored now, on the day
\* the cached statistics were written
StatsComparable ==
    /\ call.op = "getStudyStats"
    /\ call.cards = cardsOf(cards, collection.id)
    /\ todayString(call.now) = todayString(collection.updatedAt)

(* C37: the statistics updateStats caches and those getStudyStats returns  *)
(* for the same cards on the same day agree in the number of new,          *)
(* learning and review cards, in the total and in dueToday.                *)
CachedStatsAgree ==
    StatsComparable =>
        /\ collection.stats.newCards = call.result.new
        /\ collection.stats.learningCards = call.result.learning
        /\ collection.stats.reviewCards = call.result.review
        /\ collection.stats.totalCards = call.result.total
        /\ collection.stats.dueToday = call.result.dueToday

\* both computed on the day after a card was left in learning, with a
\* second card in review that is not due
CachedStatsWitness ==
    /\ StatsComparable
    /\ call.result.total = 2
    /\ call.result.dueToday = 1
    /\ \E i \in 1..2 : /\ call.cards[i].sr.state = "learning"
                       /\ call.cards[i].sr.dueDate < todayString(call.now)
    /\ \E i \in 1..2 : /\ call.cards[i].sr.state = "review"
                       /\ call.cards[i].sr.dueDate > todayString(call.now)

----------------------------------------------------------------------------
(* Storage.cards.update and Storage.collections.update (storage.js) with   *)
(* update data of any shape.  A call is taken as one step here; updates    *)
(* that overlap are the subject of the session model.                      *)

\* variant: createdAt is taken from the data when the data has it
cardsUpdateUnprotected(existing, data, now) ==
    LET merged(side) == IF Has(data, side) THEN data[side] @@ existing[side]
                        ELSE existing[side]
    IN  [(data @@ existing) EXCEPT !.id = existing.id,
                                   !.collectionId = existing.collectionId,
                                   !.updatedAt = now,
                                   !.front = merged("front"),
                                   !.back = merged("back"),
                                   !.sr = merged("sr")]

\* the object Storage.cards.update(id, data) puts for the stored card
\* existing: { ...existing, ...data } with id, collectionId and createdAt
\* taken from existing and updatedAt from the clock, then front, back and sr
\* merged property by property when data has them
cardsUpdate(existing, data, now) ==
    LET merged(side) == IF Has(data, side) THEN data[side] @@ existing[side]
                        ELSE existing[side]
    IN  [(data @@ existing) EXCEPT !.id = existing.id,
                                   !.collectionId = existing.collectionId,
                                   !.createdAt = existing.createdAt,
                                   !.updatedAt = now,
                                   !.front = merged("front"),
                                   !.back = merged("back"),
                                   !.sr = merged("sr")]

\* the object Storage.collections.update(id, data) puts
collectionsUpdate(existing, data, now) ==
    [(data @@ existing) EXCEPT !.id = existing.id,
                               !.createdAt = existing.createdAt,
                               !.updatedAt = now]

\* update data handed to cards.update
CardUpdates ==
    { [sr |-> [interval |-> 9]],
      [front |-> [text |-> "z"]],
      [back |-> [images |-> <<"data:image/png;base64,CC">>], tags |-> <<"t3">>],
      [tags |-> <<>>],
      [id |-> 9, collectionId |-> 9, createdAt |-> 9,
       sr |-> [state |-> "review", dueDate |-> 3]] }

\* update data handed to collections.update
CollectionUpdates ==
    { [description |-> "e"],
      [settings |-> [newCardsPerDay |-> 5]],
      [id |-> 9, createdAt |-> 9, name |-> Text(2)] }

\* a database of at most one card, some time after it was written
InitUpdate ==
    /\ InitBackup
    /\ Cardinality(DOMAIN cards) <= 1
    /\ clock = TicksPerDay

\* Storage.cards.update(id, data): get, put, and collections.updateStats
cardsUpdateCall(id, data) ==
    /\ id \in DOMAIN cards
    /\ calls < MaxCalls
    /\ LET updated == cardsUpdate(cards[id], data, clock)
       IN  /\ cards' = [cards EXCEPT ![id] = updated]
           /\ call' = [op |-> "cards.update", data |-> data,
                       before |-> cards[id], after |-> updated]
    /\ collection' = withStats(collection, cards', clock)
    /\ calls' = calls + 1
    /\ UNCHANGED <<card, settings, backupVars, mediaVars, clock, dstStart, appVars>>

\* Storage.collections.update(id, data): get and put
collectionsUpdateCall(data) ==
    /\ calls < MaxCalls
    /\ collection' = collectionsUpdate(collection, data, clock)
    /\ call' = [op |-> "collections.update", data |-> data,
                before |-> collection, after |-> collection']
    /\ calls' = calls + 1
    /\ UNCHANGED <<card, settings, backupVars, mediaVars, clock, dstStart, cards, appVars>>

NextUpdate ==
    \/ \E id \in 1..2, data \in CardUpdates : cardsUpdateCall(id, data)
    \/ \E data \in CollectionUpdates : collectionsUpdateCall(data)

SpecUpdate == InitUpdate /\ [][NextUpdate]_vars

Updated == call.op \in {"cards.update", "collections.update"}

\* the properties of obj that data does not name, updatedAt among them or not
Unnamed(obj, data, withUpdatedAt) ==
    (DOMAIN obj \ DOMAIN data) \ (IF withUpdatedAt THEN {} ELSE {"updatedAt"})

\* id and createdAt (and a card's collectionId) are those of the stored
\* record, and the nested properties of sr, front and back that the data
\* does not name are kept
KeepsIdentityAndNested ==
    /\ call.after.id = call.before.id
    /\ call.after.createdAt = call.before.createdAt
    /\ call.op = "cards.update" =>
          /\ call.after.collectionId = call.before.collectionId
          /\ \A side \in {"sr", "front", "back"} \cap DOMAIN call.data :
                \A g \in DOMAIN call.before[side] \ DOMAIN call.data[side] :
                    /\ g \in DOMAIN call.after[side]
                    /\ call.after[side][g] = call.before[side][g]

(* C38 as stated: an update never changes id, createdAt or a card's        *)
(* collectionId, and leaves every property the data does not name as it    *)
(* was, the unnamed properties of sr, front and back included.             *)
UpdateKeepsAllUnnamed ==
    Updated =>
        /\ KeepsIdentityAndNested
        /\ \A f \in Unnamed(call.before, call.data, TRUE) :
              call.after[f] = call.before[f]

(* C38 as it holds: the same, except that updatedAt is set to the time of  *)
(* the update whether the data names it or not.                            *)
UpdateKeepsUnnamedButUpdatedAt ==
    Updated =>
        /\ KeepsIdentityAndNested
        /\ call.after.updatedAt = clock
        /\ \A f \in Unnamed(call.before, call.data, FALSE) :
              /\ f \in DOMAIN call.after
              /\ call.after[f] = call.before[f]

\* an update naming id, collectionId, createdAt and two properties of sr,
\* on a card with a history
HostileUpdateWitness ==
    /\ call.op = "cards.update"
    /\ Has(call.data, "id") /\ call.data.id # call.before.id
    /\ call.before.sr.history # <<>>
    /\ call.after.sr.history = call.before.sr.history
    /\ call.after.sr.dueDate = 3
    /\ call.after.sr.dueDate # call.before.sr.dueDate
    /\ call.after.updatedAt # call.before.updatedAt

----------------------------------------------------------------------------
(* Export.importCollection(file): the import that resets the scheduling    *)
(* state.  A file is its text, either not JSON at all or the object        *)
(* JSON.parse returns for it; a property that is missing, or is not of the *)
(* type validateImport asks for, is a field the object does not have.      *)

\* a card of a file, with the scheduling state of a card under review
FileCard(content) == content @@ [sr |-> Rated(NewCard, <<2, 2>>, DefaultSettings).sr]

\* a file importCollection accepts: two cards, one of them with media
GoodData ==
    [version    |-> "1.0",
     exportDate |-> 0,
     appVersion |-> "1.0.0",
     collection |-> [name |-> Text(3), description |-> "d", color |-> Null,
                     settings |-> DefaultSettings],
     cards      |-> [k \in 1..2 |->
                        FileCard(CHOOSE c \in Contents : Len(c.tags) = 2 * (k - 1))],
     checksum   |-> "sha256:00"]

\* obj without the property field
Without(obj, field) == [f \in DOMAIN obj \ {field} |-> obj[f]]

\* the files handed to importCollection
Files ==
    { [json |-> FALSE],
      [json |-> TRUE, data |-> GoodData],
      [json |-> TRUE, data |-> Without(GoodData, "checksum")],
      [json |-> TRUE, data |-> Without(GoodData, "version")],
      [json |-> TRUE, data |-> Without(GoodData, "collection")],
      [json |-> TRUE, data |-> [GoodData EXCEPT !.collection = Without(@, "name")]],
      [json |-> TRUE, data |-> [GoodData EXCEPT !.collection.name = Text(101)]],
      [json |-> TRUE, data |-> Without(GoodData, "cards")],
      [json |-> TRUE, data |-> [GoodData EXCEPT !.cards[2] = Without(@, "front")]],
      [json |-> TRUE, data |-> [GoodData EXCEPT !.cards[1].front = Without(@, "text")]],
      [json |-> TRUE, data |-> [GoodData EXCEPT !.cards[2].back = Without(@, "text")]],
      [json |-> TRUE, data |-> [GoodData EXCEPT !.cards =
                                   [k \in 1..10001 |-> GoodData.cards[1]]]],
      [json |-> TRUE, data |-> [GoodData EXCEPT !.cards = <<>>]] }

\* a database of at most one card
InitImport ==
    /\ InitBackup
    /\ Cardinality(DOMAIN cards) <= 1

\* importCollection(file) up to the loop over the cards: the file is read,
\* parsed and validated (a wrong checksum is only logged), and the new
\* collection is created
importCollection(file) ==
    /\ call = NoCall
    /\ restored = NoCollection
    /\ tasks = <<>>
    /\ IF ~file.json
       THEN /\ call' = [op |-> "importCollection", file |-> file,
                        outcome |-> "ImportError",
                        message |-> "Invalid file format. File is not valid JSON."]
            /\ UNCHANGED <<restored, tasks>>
       ELSE IF ~validateImport(file.data)
       THEN /\ call' = [op |-> "importCollection", file |-> file,
                        outcome |-> "ImportError",
                        message |-> "Invalid import file"]
            /\ UNCHANGED <<restored, tasks>>
       ELSE /\ restored' = collectionsCreate(
                   [name        |-> file.data.collection.name,
                    description |-> file.data.collection.description,
                    color       |-> file.data.collection.color,
                    settings    |-> file.data.collection.settings],
                   collection.id + 1, clock)
            /\ tasks' = <<[kind |-> "importCollection", pc |-> "card",
                           data |-> file.data, newCollection |-> restored',
                           cardsImported |-> 0]>>
            /\ call' = [op |-> "importCollection", file |-> file,
                        outcome |-> "pending"]
    /\ UNCHANGED <<card, settings, calls, mediaVars, download, clock, dstStart, storageVars,
                   currentView, session, currentCard, dom, ratings>>

\* one round of the loop: Storage.cards.create for the next card of the
\* file, without its sr; create ends with collections.updateStats
importCollectionCard(i) ==
    /\ tasks[i].kind = "importCollection"
    /\ tasks[i].cardsImported < Len(tasks[i].data.cards)
    /\ LET t     == tasks[i]
           c     == t.data.cards[t.cardsImported + 1]
           newId == CHOOSE id \in 1..(Cardinality(DOMAIN cards) + 1) :
                        id \notin DOMAIN cards
       IN  /\ cards' = (newId :> cardsCreate([collectionId |-> t.newCollection.id,
                                               front |-> c.front, back |-> c.back,
                                               tags |-> c.tags], newId, clock))
                       @@ cards
           /\ restored' = withStats(restored, cards', clock)
           /\ tasks' = Continue(i, [t EXCEPT !.cardsImported = @ + 1])
    /\ UNCHANGED <<engineVars, mediaVars, download, clock, dstStart, collection,
                   currentView, session, currentCard, dom, ratings>>

\* after the loop: collections.updateStats, and the call returns
importCollectionFinish(i) ==
    /\ tasks[i].kind = "importCollection"
    /\ tasks[i].cardsImported = Len(tasks[i].data.cards)
    /\ restored' = withStats(restored, cards, clock)
    /\ call' = [call EXCEPT !.outcome = "returned"]
                 @@ [result |-> [collection |-> tasks[i].newCollection,
                                 cardsImported |-> tasks[i].cardsImported]]
    /\ tasks' = Finish(i)
    /\ UNCHANGED <<card, settings, calls, mediaVars, download, clock, dstStart, cards,
                   collection, currentView, session, currentCard, dom, ratings>>

NextImport ==
    \/ \E file \in Files : importCollection(file)
    \/ \E i \in 1..Len(tasks) : importCollectionCard(i)
    \/ \E i \in 1..Len(tasks) : importCollectionFinish(i)

SpecImport == InitImport /\ [][NextImport]_vars

\* the file is not JSON, or lacks the version, the collection name or the
\* cards array, or has a card without front or back text, or has more than
\* 10000 cards
Rejectable(file) ==
    \/ ~file.json
    \/ ~Has(file.data, "version")
    \/ ~Has(file.data, "collection")
    \/ ~Has(file.data.collection, "name")
    \/ ~Has(file.data, "cards")
    \/ \E k \in 1..Len(file.data.cards) :
          \/ ~Has(file.data.cards[k], "front")
          \/ ~Has(file.data.cards[k].front, "text")
          \/ ~Has(file.data.cards[k], "back")
          \/ ~Has(file.data.cards[k].back, "text")
    \/ Len(file.data.cards) > 10000

(* C39: importCollection on a file that is not valid JSON or that fails    *)
(* the validation fails with an ImportError and creates no collection and  *)
(* no card: the store is as it was and nothing is left in flight.          *)
InvalidImportChangesNothing ==
    [][ \A file \in Files :
           (importCollection(file) /\ Rejectable(file))
              => /\ call'.outcome = "ImportError"
                 /\ UNCHANGED <<cards, collection, restored, tasks>> ]_vars

\* a file whose second card has no back text was refused
RefusedForOneCardWitness ==
    /\ call.op = "importCollection"
    /\ call.outcome = "ImportError"
    /\ call.file.json
    /\ Has(call.file.data, "cards")
    /\ Len(call.file.data.cards) = 2
    /\ Has(call.file.data.cards[2], "back")
    /\ ~Has(call.file.data.cards[2].back, "text")
    /\ restored = NoCollection
    /\ tasks = <<>>

----------------------------------------------------------------------------
(* Audio recording (media.js).  A MediaRecorder is a record of its state   *)
(* and of whether the tracks of its microphone stream are live; recorders  *)
(* keeps every recorder created, and mediaRecorder is the index of the one *)
(* the module variable refers to.  A toggleRecording call in flight is a   *)
(* task waiting for getUserMedia, for the recorder's stop event, or for    *)
(* the conversions inside the stop handler.                                *)

Sides == {"front", "back"}

\* isRecording()
isRecording ==
    mediaRecorder # Null /\ recorders[mediaRecorder].state = "recording"

\* cancelRecording(), as [mediaRecorder, recorders] afterwards
cancelRecording ==
    IF mediaRecorder # Null
    THEN [mediaRecorder |-> Null,
          recorders     |-> [recorders EXCEPT ![mediaRecorder] =
                                [state |-> "inactive", stream |-> "stopped"]]]
    ELSE [mediaRecorder |-> mediaRecorder, recorders |-> recorders]

\* updateRecordingUI(side, FALSE): there is no button for side null
buttonOff(side) == recordingBtn \ {side}

\* toggleRecording(side) up to its first await.  Recording: stopRecording
\* passes its check, installs onstop and calls mediaRecorder.stop(), which
\* makes the recorder inactive at once and fires its stop event later.
\* Not recording: currentRecordingSide is set, startRecording passes its
\* check and waits for getUserMedia.
toggleRecording(side) ==
    /\ calls < MaxCalls
    /\ calls' = calls + 1
    /\ IF isRecording
       THEN /\ recorders' = [recorders EXCEPT ![mediaRecorder].state = "inactive"]
            /\ tasks' = Append(tasks, [kind |-> "toggleRecording", pc |-> "onstop",
                                       recorder |-> mediaRecorder])
            /\ UNCHANGED currentRecordingSide
       ELSE /\ currentRecordingSide' = side
            /\ tasks' = Append(tasks, [kind |-> "toggleRecording",
                                       pc |-> "getUserMedia", side |-> side])
            /\ UNCHANGED recorders
    /\ UNCHANGED <<card, settings, call, backupVars, clock, dstStart, storageVars,
                   currentView, session, currentCard, dom, ratings,
                   mediaRecorder, recordingBtn>>

\* getUserMedia resolves with a stream: startRecording creates the recorder
\* on it, assigns it to mediaRecorder and starts it; toggleRecording marks
\* the button of its side
startRecordingGranted(i) ==
    /\ tasks[i].kind = "toggleRecording"
    /\ tasks[i].pc = "getUserMedia"
    /\ recorders' = Append(recorders, [state |-> "recording", stream |-> "live"])
    /\ mediaRecorder' = Len(recorders) + 1
    /\ recordingBtn' = recordingBtn \cup {tasks[i].side}
    /\ tasks' = Finish(i)
    /\ UNCHANGED <<engineVars, backupVars, clock, dstStart, storageVars,
                   currentView, session, currentCard, dom, ratings,
                   currentRecordingSide>>

\* getUserMedia rejects: startRecording throws a MediaError, toggleRecording
\* shows it and forgets the side
startRecordingDenied(i) ==
    /\ tasks[i].kind = "toggleRecording"
    /\ tasks[i].pc = "getUserMedia"
    /\ currentRecordingSide' = NoSide
    /\ tasks' = Finish(i)
    /\ UNCHANGED <<engineVars, backupVars, clock, dstStart, storageVars,
                   currentView, session, currentCard, dom, ratings,
                   mediaRecorder, recorders, recordingBtn>>

\* the catch branch of toggleRecording's stop path: notification,
\* cancelRecording, button off, side forgotten
stopFailed(i) ==
    /\ mediaRecorder' = cancelRecording.mediaRecorder
    /\ recorders' = cancelRecording.recorders
    /\ recordingBtn' = buttonOff(currentRecordingSide)
    /\ currentRecordingSide' = NoSide
    /\ tasks' = Finish(i)

\* the stop event of the stopped recorder: the handler reads
\* mediaRecorder.mimeType (a TypeError when mediaRecorder is null by now),
\* builds the blob and rejects one over 10MB, else starts the conversions
onstop(i, tooLarge) ==
    /\ tasks[i].kind = "toggleRecording"
    /\ tasks[i].pc = "onstop"
    /\ IF mediaRecorder = Null \/ tooLarge
       THEN stopFailed(i)
       ELSE /\ tasks' = Continue(i, [tasks[i] EXCEPT !.pc = "converted"])
            /\ UNCHANGED mediaVars
    /\ UNCHANGED <<engineVars, backupVars, clock, dstStart, storageVars,
                   currentView, session, currentCard, dom, ratings>>

\* after blobToDataUrl and getAudioDuration: the handler stops the tracks
\* of mediaRecorder.stream, sets mediaRecorder to null and resolves;
\* toggleRecording attaches the audio, turns the button off and forgets
\* the side
stopRecordingDone(i) ==
    /\ tasks[i].kind = "toggleRecording"
    /\ tasks[i].pc = "converted"
    /\ IF mediaRecorder = Null
       THEN stopFailed(i)
       ELSE /\ recorders' = [recorders EXCEPT ![mediaRecorder].stream = "stopped"]
            /\ mediaRecorder' = Null
            /\ recordingBtn' = buttonOff(currentRecordingSide)
            /\ currentRecordingSide' = NoSide
            /\ tasks' = Finish(i)
    /\ UNCHANGED <<engineVars, backupVars, clock, dstStart, storageVars,
                   currentView, session, currentCard, dom, ratings>>

NextMedia ==
    \/ \E side \in Sides : toggleRecording(side)
    \/ \E i \in 1..Len(tasks) : startRecordingGranted(i)
    \/ \E i \in 1..Len(tasks) : startRecordingDenied(i)
    \/ \E i \in 1..Len(tasks), tooLarge \in BOOLEAN : onstop(i, tooLarge)
    \/ \E i \in 1..Len(tasks) : stopRecordingDone(i)

\* the page with the card editor open and nothing recorded yet
InitMedia ==
    /\ InitSession
    /\ clock = 0
    /\ dstStart = 0

SpecMedia == InitMedia /\ [][NextMedia]_vars

\* the recorders that are recording
Recording == {r \in 1..Len(recorders) : recorders[r].state = "recording"}

(* C40: at most one MediaRecorder is recording at any time, whatever the   *)
(* interleaving of toggleRecording calls, a call arriving while an earlier *)
(* one still waits for the microphone included.                            *)
AtMostOneRecording == Cardinality(Recording) <= 1

====
